---------------------------- MODULE Spec2Model ----------------------------
(***************************************************************************)
(* Model of the request/response transaction engine of hdmimatrix:        *)
(* HDMIMatrix (blocking sockets, threads) and AsyncHDMIMatrix (asyncio     *)
(* streams, tasks) of src/hdmimatrix/hdmimatrix.py.                        *)
(*                                                                         *)
(* Time is counted in ticks of 50 ms, so every timing constant of the      *)
(* source is its value in seconds times 20.                                *)
(*                                                                         *)
(* A caller is a thread (HDMIMatrix) or a task (AsyncHDMIMatrix).  Its pc  *)
(* names the statement it executes next; stack holds the return labels of  *)
(* the methods it is inside of.  For tasks the labels in AwaitLabels are   *)
(* the awaits at which a task is suspended; every other label is code the  *)
(* event loop runs without switching tasks.                                *)
(***************************************************************************)
EXTENDS Integers, Sequences, FiniteSets, TLC

\* ------------------------------------------------------------- constants
\* SOCKET_TIMEOUT = 5.0 s
SOCKET_TIMEOUT == 100
\* SOCKET_END_OF_DATA_TIMEOUT = 0.5 s
SOCKET_END_OF_DATA_TIMEOUT == 10
\* SOCKET_RECEIVE_DELAY = 0.05 s
SOCKET_RECEIVE_DELAY == 1
\* the per-attempt read timeout, 0.1 s (settimeout(0.1), wait_for(timeout=0.1))
READ_ATTEMPT_TIMEOUT == 2
\* the default of _read_response's timeout parameter, 2.0 s
READ_TIMEOUT == 40

\* ---------------------------------------------------------------- bounds
\* top-level calls each caller makes
MaxCalls == 2
\* chunks the device sends during one read cycle
MaxChunks == 2
\* threads or tasks that share one instance
NumCallers == 2
\* top-level calls each of several callers makes
MaxSharedCalls == 1

None == 0

\* what the device sends: " a", and a byte outside ASCII followed by "\r"
Chunks == { <<32, 97>>, <<200, 13>> }
Requests == { "STA.", "PowerON." }
\* errors a transport operation raises (all of them OSError)
TransportErrors == { "BrokenPipe", "TimedOut" }
\* the characters str.strip() removes and \s matches, among the ASCII ones
Whitespace == { 32, 9, 10, 11, 12, 13, 28, 29, 30, 31 }

VARIABLES
    variant,          \* "sync": HDMIMatrix, "async": AsyncHDMIMatrix
    device,           \* how the device answers: "any" or "prompt"
    auto_reconnect,   \* BaseHDMIMatrix.auto_reconnect
    input_count,      \* BaseHDMIMatrix._input_count
    output_count,     \* BaseHDMIMatrix._output_count
    connection,       \* HDMIMatrix.connection: a handle or None
    reader,           \* AsyncHDMIMatrix.reader
    writer,           \* AsyncHDMIMatrix.writer
    connection_lock,  \* AsyncHDMIMatrix._connection_lock: a lock or None
    sock,             \* the transports created so far: state, read timeout,
                      \* and eof: a read of it has returned b""
    locks,            \* the asyncio.Lock objects created so far: their holder
    pc, stack,        \* each caller's position and return labels
    calls,            \* top-level calls each caller has started
    op,               \* the top-level call each caller is in or has finished:
                      \* its name and is_connected when it began
    request,          \* _process_request's argument
    e,                \* the exception in flight: the transport error
                      \* _process_request caught, what the with-body raised
    connect_result,   \* what the last connect() of the caller returned
    held,             \* the lock the caller's `async with` acquired
    closing,          \* the writer whose wait_closed() the caller awaits
    original_timeout, \* _read_response's local
    response_parts,   \* _read_response's local
    elapsed,          \* time.time() - start_time
    gap,              \* time.time() - last_data_time
    response,         \* what the last _read_response of the caller returned
    result,           \* how the caller's last top-level call ended
    log               \* transport operations of the caller's current call

\* what the constructor sets and no method assigns
config == <<variant, device, auto_reconnect, input_count, output_count>>
shared == <<config, connection, reader, writer, connection_lock, sock, locks>>
control == <<pc, stack, calls, op, request, result, log>>
locals == <<e, connect_result, held, closing, original_timeout, response_parts,
            elapsed, gap, response>>
vars == <<shared, control, locals>>

Callers == DOMAIN pc

\* ------------------------------------------------------------ pure parts
\* bytes.decode('ascii', errors='ignore')
Decode(data) == SelectSeq(data, LAMBDA b : b < 128)

\* ''.join(response_parts)
RECURSIVE Join(_)
Join(parts) == IF parts = <<>> THEN <<>> ELSE Head(parts) \o Join(Tail(parts))

RECURSIVE LStrip(_)
LStrip(s) == IF s # <<>> /\ Head(s) \in Whitespace THEN LStrip(Tail(s)) ELSE s

RECURSIVE RStrip(_)
RStrip(s) == IF s # <<>> /\ s[Len(s)] \in Whitespace
             THEN RStrip(SubSeq(s, 1, Len(s) - 1)) ELSE s

\* str.strip()
Strip(s) == RStrip(LStrip(s))

\* complete_response of _read_response
CompleteResponse(parts) == Strip(Join(parts))

\* ------------------------------------------------------------- helpers
\* the history of a call (log, and is_connected at its start) is recorded
\* when the instance has a single caller
Observing == Cardinality(Callers) = 1

Event(kind, h, ok, data, err) ==
    [ev |-> kind, h |-> h, ok |-> ok, data |-> data, err |-> err]
\* socket.send(request) returns the number of bytes it has sent, which may be
\* fewer than len(request); a peer that answers promptly also reads
\* promptly, and the transport takes the whole payload
SendTakesAll == IF device = "any" THEN BOOLEAN ELSE { TRUE }

\* a send() or write() of the caller's request on handle h: whether it
\* returned (ok) or raised err, and whether the transport took all of it
Write(t, h, ok, err, all) ==
    [ev |-> "write", h |-> h, ok |-> ok, data |-> request[t], err |-> err,
     all |-> all]

Logged(t, ev) ==
    log' = [log EXCEPT ![t] = IF Observing THEN Append(@, ev) ELSE @]
Logged2(t, ev1, ev2) ==
    log' = [log EXCEPT ![t] = IF Observing THEN Append(Append(@, ev1), ev2)
                              ELSE @]
\* append a sequence of events
LoggedAll(t, evs) ==
    log' = [log EXCEPT ![t] = IF Observing THEN @ \o evs ELSE @]
\* the greeting read of connect() and how it ended (data, eof, timeout,
\* error), kept for a connect() the caller calls itself or through the
\* context manager
Greeted(t, h, g) ==
    IF op[t].name = "_process_request" THEN <<>>
    ELSE << Event("greet", h, g \in { "data", "eof" }, g, "") >>
Count(t, kind) == Cardinality({ i \in DOMAIN log[t] : log[t][i].ev = kind })

Returned(v) == [kind |-> "return", exc |-> "", msg |-> "", cause |-> "", value |-> v]
Raised(x, m, c) == [kind |-> "raise", exc |-> x, msg |-> m, cause |-> c, value |-> <<>>]
NoResult == [kind |-> "none", exc |-> "", msg |-> "", cause |-> "", value |-> <<>>]

Goto(t, l) == pc' = [pc EXCEPT ![t] = l]
\* call a method: run it from label l, come back at label back
Call(t, l, back) ==
    /\ pc' = [pc EXCEPT ![t] = l]
    /\ stack' = [stack EXCEPT ![t] = <<back>> \o @]
\* return from a method
Return(t) ==
    /\ pc' = [pc EXCEPT ![t] = Head(stack[t])]
    /\ stack' = [stack EXCEPT ![t] = Tail(@)]
\* the top-level call ends with result r
Finish(t, r) ==
    /\ pc' = [pc EXCEPT ![t] = "idle"]
    /\ stack' = [stack EXCEPT ![t] = <<>>]
    /\ result' = [result EXCEPT ![t] = r]

\* the awaits at which a task is suspended
AwaitLabels == { "idle", "a_open", "a_greet", "a_closing", "a_lock",
                 "a_read_loop" }

\* the event loop switches tasks only at an await: a task steps when no
\* other task is between two awaits.  Threads step at any statement.
Scheduled(t) ==
    \/ variant = "sync"
    \/ \A u \in Callers \ {t} : pc[u] \in AwaitLabels

\* Python's True and False as a returned value
Bool(b) == IF b THEN <<"True">> ELSE <<"False">>


\* ---------------------------------------------------------------- Init
\* callers that have called nothing yet and hold the text r, which they
\* know as a
CallersHolding(C, a, r) ==
    /\ pc = [t \in C |-> "idle"]
    /\ stack = [t \in C |-> <<>>]
    /\ calls = [t \in C |-> 0]
    /\ op = [t \in C |-> [name |-> "none", args |-> a, connected |-> FALSE]]
    /\ request = [t \in C |-> ""]
    /\ e = [t \in C |-> ""]
    /\ connect_result = [t \in C |-> FALSE]
    /\ held = [t \in C |-> None]
    /\ closing = [t \in C |-> None]
    /\ original_timeout = [t \in C |-> 0]
    /\ response_parts = [t \in C |-> <<>>]
    /\ elapsed = [t \in C |-> 0]
    /\ gap = [t \in C |-> 0]
    /\ response = [t \in C |-> r]
    /\ result = [t \in C |-> NoResult]
    /\ log = [t \in C |-> <<>>]

\* callers that have called nothing yet
CallersInit(C) == CallersHolding(C, <<>>, <<>>)

\* the instance after construction (BaseHDMIMatrix.__init__ and the two
\* subclasses' __init__), of variant V
Constructed(V, D) ==
    /\ variant \in V
    /\ device = D
    /\ auto_reconnect \in BOOLEAN
    /\ input_count = 4
    /\ output_count = 4
    /\ connection = None
    /\ reader = None
    /\ writer = None
    /\ connection_lock = None
    /\ sock = <<>>
    /\ locks = <<>>

\* the state after construction (BaseHDMIMatrix.__init__ and the two
\* subclasses' __init__), for the callers C of one instance of variant V
InitWith(C, V, D) == Constructed(V, D) /\ CallersInit(C)

\* ------------------------------------------------------- top-level calls
\* HDMIMatrix.is_connected: self.connection is not None
Sync_is_connected == connection # None

\* AsyncHDMIMatrix.is_connected:
\* self.writer is not None and not self.writer.is_closing()
Async_is_connected == writer # None /\ sock[writer].state = "open"

is_connected == IF variant = "sync" THEN Sync_is_connected
                ELSE Async_is_connected

\* a caller calls method m with arguments a
Called(t, m, a) ==
    /\ pc[t] = "idle"
    /\ Scheduled(t)
    /\ calls[t] < IF Observing THEN MaxCalls ELSE MaxSharedCalls
    /\ calls' = [calls EXCEPT ![t] = @ + 1]
    /\ op' = [op EXCEPT ![t] = [name |-> m, args |-> a,
                                connected |-> Observing /\ is_connected]]

\* nothing is left of the caller's previous call
Fresh(t) ==
    /\ log' = [log EXCEPT ![t] = <<>>]
    /\ e' = [e EXCEPT ![t] = ""]
    /\ connect_result' = [connect_result EXCEPT ![t] = FALSE]
    /\ response' = [response EXCEPT ![t] = <<>>]
    /\ UNCHANGED <<held, closing, original_timeout, response_parts, elapsed,
                   gap>>

\* a caller starts method m of the instance at label l
Begin(t, m, l, back) ==
    /\ Called(t, m, <<>>)
    /\ result' = [result EXCEPT ![t] = NoResult]
    /\ Fresh(t)
    /\ Call(t, l, back)

CallConnect(t) ==
    /\ Begin(t, "connect", IF variant = "sync" THEN "connect" ELSE "a_open",
             "ret_connect")
    /\ UNCHANGED <<shared, request>>

CallDisconnect(t) ==
    /\ Begin(t, "disconnect",
             IF variant = "sync" THEN "disconnect" ELSE "a_disconnect",
             "ret_disconnect")
    /\ UNCHANGED <<shared, request>>

CallProcessRequest(t) ==
    /\ Begin(t, "_process_request", IF variant = "sync" THEN "pr" ELSE "a_pr",
             "ret_pr")
    /\ \E r \in Requests : request' = [request EXCEPT ![t] = r]
    /\ UNCHANGED shared

\* connect() returned to the caller
ReturnConnect(t) ==
    /\ pc[t] = "ret_connect"
    /\ Scheduled(t)
    /\ Finish(t, Returned(Bool(connect_result[t])))
    /\ UNCHANGED <<shared, calls, op, request, log, locals>>

\* disconnect() returned to the caller
ReturnDisconnect(t) ==
    /\ pc[t] = "ret_disconnect"
    /\ Scheduled(t)
    /\ Finish(t, Returned(<<>>))
    /\ UNCHANGED <<shared, calls, op, request, log, locals>>

\* _read_response called by the caller itself
CallReadResponse(t) ==
    /\ Begin(t, "_read_response", IF variant = "sync" THEN "read" ELSE "a_read",
             "ret_read")
    /\ UNCHANGED <<shared, request>>

\* _read_response returned to the caller
ReturnRead(t) ==
    /\ pc[t] = "ret_read"
    /\ Scheduled(t)
    /\ Finish(t, Returned(response[t]))
    /\ UNCHANGED <<shared, calls, op, request, log, locals>>

\* ------------------------------------------------ the context manager
FailedToConnect == "Failed to connect"
\* what the body of a with statement raises
BodyError == "BodyError"

\* `with matrix:` / `async with matrix:` starts with __enter__ / __aenter__,
\* which calls connect()
CallWith(t) ==
    /\ Begin(t, "with", IF variant = "sync" THEN "connect" ELSE "a_open",
             "with_entered")
    /\ UNCHANGED <<shared, request>>

\* if not self.connect(): raise RuntimeError("Failed to connect")
\* return self
With_enter(t) ==
    /\ pc[t] = "with_entered"
    /\ Scheduled(t)
    /\ IF connect_result[t]
       THEN Goto(t, "with_body") /\ UNCHANGED <<stack, result>>
       ELSE Finish(t, Raised("RuntimeError", FailedToConnect, ""))
    /\ UNCHANGED <<shared, calls, op, request, log, locals>>

\* a variant of With_body that leaves the block without __exit__ when the
\* body raises
With_body_ExitOnlyOnSuccess(t) ==
    /\ pc[t] = "with_body"
    /\ Scheduled(t)
    /\ \E raised \in BOOLEAN :
          /\ e' = [e EXCEPT ![t] = IF raised THEN BodyError ELSE ""]
          /\ Logged(t, Event("body", None, ~raised, "", ""))
          /\ IF raised
             THEN Finish(t, Raised(BodyError, "", ""))
             ELSE /\ Call(t, IF variant = "sync" THEN "disconnect"
                            ELSE "a_disconnect", "with_exit")
                  /\ result' = result
    /\ UNCHANGED <<shared, calls, op, request, connect_result, held, closing,
                   original_timeout, response_parts, elapsed, gap, response>>

\* the body of the with statement runs, and returns or raises; then
\* __exit__ / __aexit__ calls disconnect()
With_body(t) ==
    /\ pc[t] = "with_body"
    /\ Scheduled(t)
    /\ \E raised \in BOOLEAN :
          /\ e' = [e EXCEPT ![t] = IF raised THEN BodyError ELSE ""]
          /\ Logged(t, Event("body", None, ~raised, "", ""))
    /\ Call(t, IF variant = "sync" THEN "disconnect" ELSE "a_disconnect",
            "with_exit")
    /\ UNCHANGED <<shared, calls, op, request, result, connect_result, held,
                   closing, original_timeout, response_parts, elapsed, gap,
                   response>>

\* __exit__ / __aexit__ returns None: an exception of the body propagates
With_exit(t) ==
    /\ pc[t] = "with_exit"
    /\ Scheduled(t)
    /\ Finish(t, IF e[t] = "" THEN Returned(<<>>) ELSE Raised(e[t], "", ""))
    /\ UNCHANGED <<shared, calls, op, request, log, locals>>

\* ---------------------------------------------------- HDMIMatrix.connect
\* self.connection = socket.socket(...); self.connection.settimeout(...)
Sync_connect_socket(t) ==
    /\ pc[t] = "connect"
    /\ variant = "sync"
    /\ sock' = Append(sock, [state |-> "created", timeout |-> SOCKET_TIMEOUT,
                             eof |-> FALSE])
    /\ connection' = Len(sock) + 1
    /\ Logged(t, Event("connect", Len(sock) + 1, TRUE, "", ""))
    /\ Goto(t, "connect_wait")
    /\ UNCHANGED <<config, reader, writer, connection_lock,
                   locks, stack, calls, op, request, result, locals>>

\* self.connection.connect((self.host, self.port)); any exception goes to
\* the except clause
Sync_connect_wait(t) ==
    /\ pc[t] = "connect_wait"
    /\ variant = "sync"
    /\ \/ /\ connection # None
          /\ sock[connection].state = "created"
          /\ sock' = [sock EXCEPT ![connection].state = "open"]
          /\ Goto(t, "connect_greet")
       \/ /\ sock' = sock
          /\ Goto(t, "connect_fail")
    /\ UNCHANGED <<config, connection, reader, writer,
                   connection_lock, locks, stack, calls, op, request, result,
                   log, locals>>

\* data = self.connection.recv(SOCKET_RECV_BUFFER); return True.  The recv
\* runs under SOCKET_TIMEOUT: a device that sends no greeting makes it raise
\* socket.timeout, which the except clause turns into a failed connect.
Sync_connect_greet(t) ==
    /\ pc[t] = "connect_greet"
    /\ variant = "sync"
    /\ \/ /\ connection # None
          /\ sock[connection].state = "open"
          /\ \E greeting \in { "data", "eof" } :
                /\ connect_result' = [connect_result EXCEPT ![t] = TRUE]
                /\ LoggedAll(t, Greeted(t, connection, greeting) \o
                       << Event("connect_ret", connection, TRUE, "", "") >>)
          /\ Return(t)
       \/ /\ \E failure \in { "timeout", "error" } :
                /\ connect_result' = connect_result
                /\ LoggedAll(t, Greeted(t, connection, failure))
          /\ Goto(t, "connect_fail")
          /\ stack' = stack
    /\ UNCHANGED <<shared, calls, op, request, result, e, held, closing,
                   original_timeout, response_parts, elapsed, gap, response>>

\* except Exception: if self.connection:
Sync_connect_fail(t) ==
    /\ pc[t] = "connect_fail"
    /\ variant = "sync"
    /\ IF connection # None
       THEN /\ Goto(t, "connect_fail_close")
            /\ UNCHANGED <<stack, connect_result, log>>
       ELSE /\ connect_result' = [connect_result EXCEPT ![t] = FALSE]
            /\ Logged(t, Event("connect_ret", None, FALSE, "", ""))
            /\ Return(t)
    /\ UNCHANGED <<shared, calls, op, request, result, e, held, closing,
                   original_timeout, response_parts, elapsed, gap, response>>

\* self.connection.close(), in the except clause: with self.connection
\* cleared by another thread meanwhile the AttributeError leaves connect()
Sync_connect_fail_close(t) ==
    /\ pc[t] = "connect_fail_close"
    /\ variant = "sync"
    /\ IF connection # None
       THEN /\ sock' = [sock EXCEPT ![connection].state = "closed"]
            /\ Logged(t, Event("close", connection, TRUE, "", ""))
            /\ Goto(t, "connect_fail_clear")
            /\ UNCHANGED <<stack, result>>
       ELSE /\ Finish(t, Raised("AttributeError", "", ""))
            /\ UNCHANGED <<sock, log>>
    /\ UNCHANGED <<config, connection, reader, writer,
                   connection_lock, locks, calls, op, request, locals>>

\* self.connection = None; return False
Sync_connect_fail_clear(t) ==
    /\ pc[t] = "connect_fail_clear"
    /\ variant = "sync"
    /\ connection' = None
    /\ connect_result' = [connect_result EXCEPT ![t] = FALSE]
    /\ Logged(t, Event("connect_ret", None, FALSE, "", ""))
    /\ Return(t)
    /\ UNCHANGED <<config, reader, writer, connection_lock,
                   sock, locks, calls, op, request, result, e, held, closing,
                   original_timeout, response_parts, elapsed, gap, response>>

\* ------------------------------------------------- HDMIMatrix.disconnect
\* if self.connection:
Sync_disconnect(t) ==
    /\ pc[t] = "disconnect"
    /\ variant = "sync"
    /\ IF connection # None
       THEN Goto(t, "disconnect_close") /\ stack' = stack
       ELSE Return(t)
    /\ UNCHANGED <<shared, calls, op, request, result, log, locals>>

\* self.connection.close()
Sync_disconnect_close(t) ==
    /\ pc[t] = "disconnect_close"
    /\ variant = "sync"
    /\ IF connection # None
       THEN /\ sock' = [sock EXCEPT ![connection].state = "closed"]
            /\ Logged(t, Event("close", connection, TRUE, "", ""))
            /\ Goto(t, "disconnect_clear")
            /\ UNCHANGED <<stack, result>>
       ELSE /\ Finish(t, Raised("AttributeError", "", ""))
            /\ UNCHANGED <<sock, log>>
    /\ UNCHANGED <<config, connection, reader, writer,
                   connection_lock, locks, calls, op, request, locals>>

\* a variant of Sync_disconnect_clear that keeps the handle stored
Sync_disconnect_clear_KeepsHandle(t) ==
    /\ pc[t] = "disconnect_clear"
    /\ variant = "sync"
    /\ connection' = connection
    /\ Return(t)
    /\ UNCHANGED <<config, reader, writer, connection_lock,
                   sock, locks, calls, op, request, result, log, locals>>

\* self.connection = None
Sync_disconnect_clear(t) ==
    /\ pc[t] = "disconnect_clear"
    /\ variant = "sync"
    /\ connection' = None
    /\ Return(t)
    /\ UNCHANGED <<config, reader, writer, connection_lock,
                   sock, locks, calls, op, request, result, log, locals>>


\* ------------------------------------------- HDMIMatrix._process_request
\* the error messages of _process_request
NotConnected == "Not connected. Call connect() first."
ReconnectFailed == "Not connected and auto-reconnect failed."
ConnectionLost == "Connection lost during request"

\* a variant of Sync_pr_check that tries to connect whatever auto_reconnect is
Sync_pr_check_AlwaysConnects(t) ==
    /\ pc[t] = "pr"
    /\ variant = "sync"
    /\ IF Sync_is_connected
       THEN Goto(t, "pr_send") /\ UNCHANGED <<stack, result>>
       ELSE Call(t, "connect", "pr_connected") /\ result' = result
    /\ UNCHANGED <<shared, calls, op, request, log, locals>>

\* if not self.is_connected: ... (is_connected: self.connection is not None)
Sync_pr_check(t) ==
    /\ pc[t] = "pr"
    /\ variant = "sync"
    /\ IF Sync_is_connected
       THEN Goto(t, "pr_send") /\ UNCHANGED <<stack, result>>
       ELSE IF auto_reconnect
            THEN Call(t, "connect", "pr_connected") /\ result' = result
            ELSE Finish(t, Raised("RuntimeError", NotConnected, ""))
    /\ UNCHANGED <<shared, calls, op, request, log, locals>>

\* a variant of Sync_pr_connected that ignores what connect() returned
Sync_pr_connected_IgnoresResult(t) ==
    /\ pc[t] = "pr_connected"
    /\ variant = "sync"
    /\ Goto(t, "pr_send") /\ UNCHANGED <<stack, result>>
    /\ UNCHANGED <<shared, calls, op, request, log, locals>>

\* if not self.connect(): raise RuntimeError(...)
Sync_pr_connected(t) ==
    /\ pc[t] = "pr_connected"
    /\ variant = "sync"
    /\ IF connect_result[t]
       THEN Goto(t, "pr_send") /\ UNCHANGED <<stack, result>>
       ELSE Finish(t, Raised("RuntimeError", ReconnectFailed, ""))
    /\ UNCHANGED <<shared, calls, op, request, log, locals>>

\* a variant of Sync_pr_send whose except clause does not disconnect
Sync_pr_send_KeepsHandle(t) ==
    /\ pc[t] = "pr_send"
    /\ variant = "sync"
    /\ IF connection = None
       THEN /\ Finish(t, Raised("AttributeError", "", ""))
            /\ UNCHANGED <<log, e>>
       ELSE \/ /\ sock[connection].state = "open"
               /\ \E all \in SendTakesAll :
                     Logged(t, Write(t, connection, TRUE, "", all))
               /\ Call(t, "read", "pr_return")
               /\ UNCHANGED <<result, e>>
            \/ /\ \E err \in TransportErrors :
                     /\ e' = [e EXCEPT ![t] = err]
                     /\ Logged(t, Write(t, connection, FALSE, err, FALSE))
               /\ Goto(t, "pr_disconnected")
               /\ UNCHANGED <<stack, result>>
    /\ UNCHANGED <<shared, calls, op, request, connect_result, held,
                   closing, original_timeout, response_parts, elapsed, gap,
                   response>>

\* try: self.connection.send(request); return self._read_response()
\* except (OSError, socket.timeout) as e: self.disconnect()
Sync_pr_send(t) ==
    /\ pc[t] = "pr_send"
    /\ variant = "sync"
    /\ IF connection = None
       THEN /\ Finish(t, Raised("AttributeError", "", ""))
            /\ UNCHANGED <<log, e>>
       ELSE \/ /\ sock[connection].state = "open"
               /\ \E all \in SendTakesAll :
                     Logged(t, Write(t, connection, TRUE, "", all))
               /\ Call(t, "read", "pr_return")
               /\ UNCHANGED <<result, e>>
            \/ /\ \E err \in TransportErrors :
                     /\ e' = [e EXCEPT ![t] = err]
                     /\ Logged(t, Write(t, connection, FALSE, err, FALSE))
               /\ Call(t, "disconnect", "pr_disconnected")
               /\ result' = result
    /\ UNCHANGED <<shared, calls, op, request, connect_result, held,
                   closing, original_timeout, response_parts, elapsed, gap,
                   response>>

\* a variant of Sync_pr_disconnected that reconnects whatever auto_reconnect is
Sync_pr_disconnected_AlwaysReconnects(t) ==
    /\ pc[t] = "pr_disconnected"
    /\ variant = "sync"
    /\ Call(t, "connect", "pr_retry") /\ result' = result
    /\ UNCHANGED <<shared, calls, op, request, log, locals>>

\* if self.auto_reconnect: if self.connect(): ...
\* raise RuntimeError(f"Connection lost during request: {e}") from e
Sync_pr_disconnected(t) ==
    /\ pc[t] = "pr_disconnected"
    /\ variant = "sync"
    /\ IF auto_reconnect
       THEN Call(t, "connect", "pr_retry") /\ result' = result
       ELSE Finish(t, Raised("RuntimeError", ConnectionLost, e[t]))
    /\ UNCHANGED <<shared, calls, op, request, log, locals>>

\* a variant of Sync_pr_retry that handles a failed retried send as the first
\* one: disconnect, reconnect, retry
Sync_pr_retry_Loops(t) ==
    /\ pc[t] = "pr_retry"
    /\ variant = "sync"
    /\ IF ~connect_result[t]
       THEN /\ Finish(t, Raised("RuntimeError", ConnectionLost, e[t]))
            /\ log' = log
       ELSE IF connection = None
       THEN /\ Finish(t, Raised("AttributeError", "", ""))
            /\ log' = log
       ELSE \/ /\ sock[connection].state = "open"
               /\ \E all \in SendTakesAll :
                     Logged(t, Write(t, connection, TRUE, "", all))
               /\ Call(t, "read", "pr_return")
               /\ result' = result
            \/ /\ \E err \in TransportErrors :
                     Logged(t, Write(t, connection, FALSE, err, FALSE))
               /\ Call(t, "disconnect", "pr_disconnected")
               /\ result' = result
    /\ UNCHANGED <<shared, calls, op, request, locals>>

\* if self.connect(): self.connection.send(request);
\*                    return self._read_response()
\* raise RuntimeError(f"Connection lost during request: {e}") from e
\* The retried send runs inside the except clause: what it raises leaves
\* _process_request as it is.
Sync_pr_retry(t) ==
    /\ pc[t] = "pr_retry"
    /\ variant = "sync"
    /\ IF ~connect_result[t]
       THEN /\ Finish(t, Raised("RuntimeError", ConnectionLost, e[t]))
            /\ log' = log
       ELSE IF connection = None
       THEN /\ Finish(t, Raised("AttributeError", "", ""))
            /\ log' = log
       ELSE \/ /\ sock[connection].state = "open"
               /\ \E all \in SendTakesAll :
                     Logged(t, Write(t, connection, TRUE, "", all))
               /\ Call(t, "read", "pr_return")
               /\ result' = result
            \/ /\ \E err \in TransportErrors :
                     /\ Logged(t, Write(t, connection, FALSE, err, FALSE))
                     /\ Finish(t, Raised("OSError", err, ""))
    /\ UNCHANGED <<shared, calls, op, request, locals>>

\* a variant of Sync_pr_return that takes an empty response for a lost
\* connection
Sync_pr_return_RaisesOnEmpty(t) ==
    /\ pc[t] = "pr_return"
    /\ variant = "sync"
    /\ Finish(t, IF response[t] = <<>>
                 THEN Raised("RuntimeError", ConnectionLost, "")
                 ELSE Returned(response[t]))
    /\ UNCHANGED <<shared, calls, op, request, log, locals>>

\* _process_request returns what _read_response returned
Sync_pr_return(t) ==
    /\ pc[t] = "pr_return"
    /\ variant = "sync"
    /\ Finish(t, Returned(response[t]))
    /\ UNCHANGED <<shared, calls, op, request, log, locals>>

\* --------------------------------------------- HDMIMatrix._read_response
\* a variant of Sync_read_begin that enters the loop without a connection
Sync_read_begin_EntersLoop(t) ==
    /\ pc[t] = "read"
    /\ variant = "sync"
    /\ IF connection = None \/ sock[connection].state = "closed"
       THEN /\ response_parts' = [response_parts EXCEPT ![t] = <<>>]
            /\ elapsed' = [elapsed EXCEPT ![t] = 0]
            /\ gap' = [gap EXCEPT ![t] = 0]
            /\ Goto(t, "read_loop")
            /\ UNCHANGED <<sock, original_timeout, stack, response, log>>
       ELSE /\ original_timeout' =
                  [original_timeout EXCEPT ![t] = sock[connection].timeout]
            /\ sock' = [sock EXCEPT ![connection].timeout = READ_ATTEMPT_TIMEOUT]
            /\ response_parts' = [response_parts EXCEPT ![t] = <<>>]
            /\ elapsed' = [elapsed EXCEPT ![t] = 0]
            /\ gap' = [gap EXCEPT ![t] = 0]
            /\ Logged(t, Event("read", connection, TRUE, "", ""))
            /\ Goto(t, "read_loop")
            /\ UNCHANGED <<stack, response>>
    /\ UNCHANGED <<config, connection, reader, writer,
                   connection_lock, locks, calls, op, request, result, e,
                   connect_result, held, closing>>

\* if not self.connection: return ""
\* original_timeout = self.connection.gettimeout()
\* self.connection.settimeout(0.1); response_parts = []; start_time = ...
\* (settimeout on a socket another thread closed raises: return "")
Sync_read_begin(t) ==
    /\ pc[t] = "read"
    /\ variant = "sync"
    /\ IF connection = None \/ sock[connection].state = "closed"
       THEN /\ response' = [response EXCEPT ![t] = <<>>]
            /\ Return(t)
            /\ UNCHANGED <<sock, original_timeout, response_parts, elapsed,
                           gap, log>>
       ELSE /\ original_timeout' =
                  [original_timeout EXCEPT ![t] = sock[connection].timeout]
            /\ sock' = [sock EXCEPT ![connection].timeout = READ_ATTEMPT_TIMEOUT]
            /\ response_parts' = [response_parts EXCEPT ![t] = <<>>]
            /\ elapsed' = [elapsed EXCEPT ![t] = 0]
            /\ gap' = [gap EXCEPT ![t] = 0]
            /\ Logged(t, Event("read", connection, TRUE, "", ""))
            /\ Goto(t, "read_loop")
            /\ UNCHANGED <<stack, response>>
    /\ UNCHANGED <<config, connection, reader, writer,
                   connection_lock, locks, calls, op, request, result, e,
                   connect_result, held, closing>>

\* _read_response returns: its locals are gone
EndOfRead(t) ==
    /\ original_timeout' = [original_timeout EXCEPT ![t] = 0]
    /\ response_parts' = [response_parts EXCEPT ![t] = <<>>]
    /\ elapsed' = [elapsed EXCEPT ![t] = 0]
    /\ gap' = [gap EXCEPT ![t] = 0]

\* the device may send one more chunk to the reading caller: up to
\* MaxChunks chunks at any time, and a prompt device one chunk at once
MayArrive(t) ==
    IF device = "any"
    THEN Len(response_parts[t]) < MaxChunks
    ELSE response_parts[t] = <<>> /\ elapsed[t] = 0

\* a read attempt of the caller may time out: a prompt device has answered
\* or the transport has failed by then
MayBeSilent(t) == device = "any" \/ response_parts[t] # <<>>

\* the peer may close the stream: a prompt device keeps it open
MayClose == device = "any"

\* time passes for the caller
Wait(t, d) ==
    /\ elapsed' = [elapsed EXCEPT ![t] = @ + d]
    /\ gap' = [gap EXCEPT ![t] = @ + d]

\* a variant of Sync_recv_data that keeps the latest chunk only
Sync_recv_data_KeepsLatest(t) ==
    /\ ~sock[connection].eof
    /\ MayArrive(t)
    /\ \E data \in Chunks, d \in 0 .. READ_ATTEMPT_TIMEOUT - 1 :
         /\ response_parts' = [response_parts EXCEPT ![t] = << Decode(data) >>]
         /\ elapsed' = [elapsed EXCEPT ![t] = @ + d]
         /\ gap' = [gap EXCEPT ![t] = 0]
         /\ Logged(t, Event("recv", connection, TRUE, data, ""))
    /\ sock' = sock
    /\ Goto(t, "read_loop")

\* recv returned data: response_parts.append(data.decode(...));
\* last_data_time = time.time().  After a read of the stream has returned
\* b"" no data follows.
Sync_recv_data(t) ==
    /\ ~sock[connection].eof
    /\ MayArrive(t)
    /\ \E data \in Chunks, d \in 0 .. READ_ATTEMPT_TIMEOUT - 1 :
         /\ response_parts' =
              [response_parts EXCEPT ![t] = Append(@, Decode(data))]
         /\ elapsed' = [elapsed EXCEPT ![t] = @ + d]
         /\ gap' = [gap EXCEPT ![t] = 0]
         /\ Logged(t, Event("recv", connection, TRUE, data, ""))
    /\ sock' = sock
    /\ Goto(t, "read_loop")

\* recv returned b"" (the peer closed the stream): the else branch of
\* `if data`, which breaks only on the inactivity test and sleeps otherwise
Sync_recv_eof(t) ==
    /\ MayClose \/ sock[connection].eof
    /\ sock' = [sock EXCEPT ![connection].eof = TRUE]
    /\ UNCHANGED <<response_parts, log>>
    /\ IF /\ response_parts[t] # <<>>
          /\ gap[t] > SOCKET_END_OF_DATA_TIMEOUT
       THEN Goto(t, "read_end") /\ UNCHANGED <<elapsed, gap>>
       ELSE Goto(t, "read_loop") /\ Wait(t, SOCKET_RECEIVE_DELAY)

\* a variant of Sync_recv_timeout that stops at the first timeout after data
Sync_recv_timeout_StopsEarly(t) ==
    /\ ~sock[connection].eof
    /\ MayBeSilent(t)
    /\ UNCHANGED <<response_parts, log, sock>>
    /\ LET tmo == sock[connection].timeout IN
       IF response_parts[t] # <<>>
       THEN Goto(t, "read_end") /\ Wait(t, tmo)
       ELSE Goto(t, "read_loop") /\ Wait(t, tmo + SOCKET_RECEIVE_DELAY)

\* recv raised socket.timeout after the socket's read timeout: break on the
\* inactivity test, else time.sleep(SOCKET_RECEIVE_DELAY) and continue
Sync_recv_timeout(t) ==
    /\ ~sock[connection].eof
    /\ MayBeSilent(t)
    /\ UNCHANGED <<response_parts, log, sock>>
    /\ LET tmo == sock[connection].timeout IN
       IF /\ response_parts[t] # <<>>
          /\ gap[t] + tmo > SOCKET_END_OF_DATA_TIMEOUT
       THEN Goto(t, "read_end") /\ Wait(t, tmo)
       ELSE Goto(t, "read_loop") /\ Wait(t, tmo + SOCKET_RECEIVE_DELAY)

\* a variant of Sync_recv_error that drops what was read
Sync_recv_error_DropsData(t) ==
    /\ \E err \in TransportErrors :
          Logged(t, Event("read_error", connection, FALSE, "", err))
    /\ response_parts' = [response_parts EXCEPT ![t] = <<>>]
    /\ Goto(t, "read_end")
    /\ UNCHANGED <<elapsed, gap, sock>>

\* recv raised any other exception: except Exception: break
Sync_recv_error(t) ==
    /\ \E err \in TransportErrors :
          Logged(t, Event("read_error", connection, FALSE, "", err))
    /\ Goto(t, "read_end")
    /\ UNCHANGED <<response_parts, elapsed, gap, sock>>

\* a variant of Sync_read_attempt that tests the overall timeout against the
\* time since the last chunk
Sync_read_attempt_MovesDeadline(t) ==
    /\ pc[t] = "read_loop"
    /\ variant = "sync"
    /\ IF gap[t] >= READ_TIMEOUT
       THEN /\ Goto(t, "read_end")
            /\ UNCHANGED <<response_parts, elapsed, gap, log, sock>>
       ELSE IF connection = None \/ sock[connection].state # "open"
       THEN /\ Goto(t, "read_end")
            /\ UNCHANGED <<response_parts, elapsed, gap, log, sock>>
       ELSE \/ Sync_recv_data(t)
            \/ Sync_recv_eof(t)
            \/ Sync_recv_timeout(t)
            \/ Sync_recv_error(t)
    /\ UNCHANGED <<config, connection, reader, writer,
                   connection_lock, locks, stack, calls, op, request, result,
                   e, connect_result, held, closing, original_timeout,
                   response>>

\* one pass of the while loop: the test of the overall timeout, a recv and
\* what follows it
Sync_read_attempt(t) ==
    /\ pc[t] = "read_loop"
    /\ variant = "sync"
    /\ IF elapsed[t] >= READ_TIMEOUT
       THEN \* the while condition is false
            /\ Goto(t, "read_end")
            /\ UNCHANGED <<response_parts, elapsed, gap, log, sock>>
       ELSE IF connection = None \/ sock[connection].state # "open"
       THEN \* except Exception: break
            /\ Goto(t, "read_end")
            /\ UNCHANGED <<response_parts, elapsed, gap, log, sock>>
       ELSE \/ Sync_recv_data(t)
            \/ Sync_recv_eof(t)
            \/ Sync_recv_timeout(t)
            \/ Sync_recv_error(t)
    /\ UNCHANGED <<config, connection, reader, writer,
                   connection_lock, locks, stack, calls, op, request, result,
                   e, connect_result, held, closing, original_timeout,
                   response>>

\* a variant of Sync_read_end that leaves the socket's timeout as the loop
\* set it
Sync_read_end_KeepsTimeout(t) ==
    /\ pc[t] = "read_end"
    /\ variant = "sync"
    /\ IF connection = None \/ sock[connection].state = "closed"
       THEN response' = [response EXCEPT ![t] = <<>>]
       ELSE response' =
                 [response EXCEPT ![t] = CompleteResponse(response_parts[t])]
    /\ EndOfRead(t)
    /\ Return(t)
    /\ UNCHANGED <<shared, calls, op, request, result, log, e, connect_result,
                   held, closing>>

\* self.connection.settimeout(original_timeout)
\* complete_response = ''.join(response_parts).strip()
\* (the outer except returns "" when settimeout raises)
Sync_read_end(t) ==
    /\ pc[t] = "read_end"
    /\ variant = "sync"
    /\ IF connection = None \/ sock[connection].state = "closed"
       THEN /\ response' = [response EXCEPT ![t] = <<>>]
            /\ sock' = sock
       ELSE /\ sock' = [sock EXCEPT ![connection].timeout = original_timeout[t]]
            /\ response' =
                 [response EXCEPT ![t] = CompleteResponse(response_parts[t])]
    /\ EndOfRead(t)
    /\ Return(t)
    /\ UNCHANGED <<config, connection, reader, writer,
                   connection_lock, locks, calls, op, request, result, log, e,
                   connect_result, held, closing>>

\* ----------------------------------------------- AsyncHDMIMatrix.connect
\* self.reader, self.writer = await asyncio.open_connection(...)
\* self._connection_lock = asyncio.Lock()
\* (when the await raises: except Exception: return False)
Async_connect_open(t) ==
    /\ pc[t] = "a_open"
    /\ variant = "async"
    /\ Scheduled(t)
    /\ \/ /\ sock' = Append(sock, [state |-> "open", timeout |-> 0, eof |-> FALSE])
          /\ reader' = Len(sock) + 1
          /\ writer' = Len(sock) + 1
          /\ locks' = Append(locks, None)
          /\ connection_lock' = Len(locks) + 1
          /\ Logged(t, Event("connect", Len(sock) + 1, TRUE, "", ""))
          /\ Goto(t, "a_greet")
          /\ UNCHANGED <<stack, connect_result>>
       \/ /\ Logged2(t, Event("connect", None, FALSE, "", ""),
                       Event("connect_ret", None, FALSE, "", ""))
          /\ connect_result' = [connect_result EXCEPT ![t] = FALSE]
          /\ Return(t)
          /\ UNCHANGED <<sock, reader, writer, locks, connection_lock>>
    /\ UNCHANGED <<config, connection, calls, op,
                   request, result, e, held, closing, original_timeout,
                   response_parts, elapsed, gap, response>>

\* data = await asyncio.wait_for(self.reader.read(...), timeout=1.0)
\* except asyncio.TimeoutError: pass
\* return True         (any other exception: return False)
Async_connect_greet(t) ==
    /\ pc[t] = "a_greet"
    /\ variant = "async"
    /\ Scheduled(t)
    /\ \/ \E greeting \in { "data", "eof", "timeout" } :
             /\ connect_result' = [connect_result EXCEPT ![t] = TRUE]
             /\ LoggedAll(t, Greeted(t, writer, greeting) \o
                    << Event("connect_ret", writer, TRUE, "", "") >>)
       \/ \E failure \in { "error" } :
             /\ connect_result' = [connect_result EXCEPT ![t] = FALSE]
             /\ LoggedAll(t, Greeted(t, writer, failure) \o
                    << Event("connect_ret", None, FALSE, "", "") >>)
    /\ Return(t)
    /\ UNCHANGED <<shared, calls, op, request, result, e, held, closing,
                   original_timeout, response_parts, elapsed, gap, response>>

\* -------------------------------------------- AsyncHDMIMatrix.disconnect
\* if self.writer: self.writer.close(); await self.writer.wait_closed()
Async_disconnect(t) ==
    /\ pc[t] = "a_disconnect"
    /\ variant = "async"
    /\ Scheduled(t)
    /\ IF writer # None
       THEN /\ sock' = [sock EXCEPT ![writer].state =
                           IF @ = "open" THEN "closing" ELSE @]
            /\ closing' = [closing EXCEPT ![t] = writer]
            /\ Logged(t, Event("close", writer, TRUE, "", ""))
            /\ Goto(t, "a_closing")
            /\ stack' = stack
       ELSE /\ Return(t)
            /\ UNCHANGED <<sock, closing, log>>
    /\ UNCHANGED <<config, connection, reader,
                   writer, connection_lock, locks, calls, op, request, result,
                   e, connect_result, held, original_timeout, response_parts,
                   elapsed, gap, response>>

\* a variant of Async_disconnect_closed that keeps the lock of the closed
\* connection
Async_disconnect_closed_KeepsLock(t) ==
    /\ pc[t] = "a_closing"
    /\ variant = "async"
    /\ Scheduled(t)
    /\ sock' = [sock EXCEPT ![closing[t]].state = "closed"]
    /\ closing' = [closing EXCEPT ![t] = None]
    /\ writer' = None
    /\ reader' = None
    /\ Return(t)
    /\ UNCHANGED <<config, connection, connection_lock, locks, calls,
                   op, request, result, log, e, connect_result, held,
                   original_timeout, response_parts, elapsed, gap, response>>

\* wait_closed() is over:
\* self.writer = None; self.reader = None; self._connection_lock = None
Async_disconnect_closed(t) ==
    /\ pc[t] = "a_closing"
    /\ variant = "async"
    /\ Scheduled(t)
    /\ sock' = [sock EXCEPT ![closing[t]].state = "closed"]
    /\ closing' = [closing EXCEPT ![t] = None]
    /\ writer' = None
    /\ reader' = None
    /\ connection_lock' = None
    /\ Return(t)
    /\ UNCHANGED <<config, connection, locks, calls,
                   op, request, result, log, e, connect_result, held,
                   original_timeout, response_parts, elapsed, gap, response>>

\* -------------------------------------- AsyncHDMIMatrix._process_request
\* if not self.is_connected: ...
Async_pr_check(t) ==
    /\ pc[t] = "a_pr"
    /\ variant = "async"
    /\ Scheduled(t)
    /\ IF Async_is_connected
       THEN Goto(t, "a_pr_lock") /\ UNCHANGED <<stack, result>>
       ELSE IF auto_reconnect
            THEN Call(t, "a_open", "a_pr_connected") /\ result' = result
            ELSE Finish(t, Raised("RuntimeError", NotConnected, ""))
    /\ UNCHANGED <<shared, calls, op, request, log, locals>>

\* if not await self.connect(): raise RuntimeError(...)
Async_pr_connected(t) ==
    /\ pc[t] = "a_pr_connected"
    /\ variant = "async"
    /\ Scheduled(t)
    /\ IF connect_result[t]
       THEN Goto(t, "a_pr_lock") /\ UNCHANGED <<stack, result>>
       ELSE Finish(t, Raised("RuntimeError", ReconnectFailed, ""))
    /\ UNCHANGED <<shared, calls, op, request, log, locals>>

\* asyncio.Lock: free and awaited by no one
LockFree(l) ==
    /\ locks[l] = None
    /\ \A u \in Callers : ~(pc[u] = "a_lock" /\ held[u] = l)

\* if not self._connection_lock: raise RuntimeError(...)
\* async with self._connection_lock:
\* a task that finds the lock taken waits at a_lock for that lock object
Async_pr_lock(t) ==
    /\ pc[t] \in { "a_pr_lock", "a_lock" }
    /\ variant = "async"
    /\ Scheduled(t)
    /\ IF pc[t] = "a_lock"
       THEN /\ locks[held[t]] = None
            /\ locks' = [locks EXCEPT ![held[t]] = t]
            /\ Goto(t, "a_pr_send")
            /\ UNCHANGED <<held, stack, result>>
       ELSE IF connection_lock = None
       THEN /\ Finish(t, Raised("RuntimeError", NotConnected, ""))
            /\ UNCHANGED <<locks, held>>
       ELSE /\ held' = [held EXCEPT ![t] = connection_lock]
            /\ IF LockFree(connection_lock)
               THEN /\ locks' = [locks EXCEPT ![connection_lock] = t]
                    /\ Goto(t, "a_pr_send")
               ELSE /\ locks' = locks
                    /\ Goto(t, "a_lock")
            /\ UNCHANGED <<stack, result>>
    /\ UNCHANGED <<config, connection, reader,
                   writer, connection_lock, sock, calls, op, request, log, e,
                   connect_result, closing, original_timeout, response_parts,
                   elapsed, gap, response>>

\* a variant of Release that forgets the lock without releasing it
Release_KeepsLock(t) ==
    /\ locks' = locks
    /\ held' = [held EXCEPT ![t] = None]

\* leaving the `async with` block releases the lock it acquired
Release(t) ==
    /\ locks' = [locks EXCEPT ![held[t]] = None]
    /\ held' = [held EXCEPT ![t] = None]

\* try: self.writer.write(request); await self.writer.drain()
\*      return await self._read_response()
\* except (OSError, asyncio.TimeoutError) as e: await self.disconnect()
Async_pr_send(t) ==
    /\ pc[t] = "a_pr_send"
    /\ variant = "async"
    /\ Scheduled(t)
    /\ IF writer = None
       THEN /\ Finish(t, Raised("AttributeError", "", ""))
            /\ Release(t)
            /\ UNCHANGED <<log, e>>
       ELSE \/ /\ sock[writer].state = "open"
               /\ Logged(t, Write(t, writer, TRUE, "", TRUE))
               /\ Call(t, "a_read", "a_pr_return")
               /\ UNCHANGED <<result, e, locks, held>>
            \/ /\ \E err \in TransportErrors :
                     /\ e' = [e EXCEPT ![t] = err]
                     /\ Logged(t, Write(t, writer, FALSE, err, FALSE))
               /\ Call(t, "a_disconnect", "a_pr_disconnected")
               /\ UNCHANGED <<result, locks, held>>
    /\ UNCHANGED <<config, connection, reader,
                   writer, connection_lock, sock, calls, op, request,
                   connect_result, closing, original_timeout, response_parts,
                   elapsed, gap, response>>

\* if self.auto_reconnect: if await self.connect(): ...
\* raise RuntimeError(f"Connection lost during request: {e}") from e
Async_pr_disconnected(t) ==
    /\ pc[t] = "a_pr_disconnected"
    /\ variant = "async"
    /\ Scheduled(t)
    /\ IF auto_reconnect
       THEN /\ Call(t, "a_open", "a_pr_retry")
            /\ UNCHANGED <<result, locks, held>>
       ELSE /\ Finish(t, Raised("RuntimeError", ConnectionLost, e[t]))
            /\ Release(t)
    /\ UNCHANGED <<config, connection, reader,
                   writer, connection_lock, sock, calls, op, request, log, e,
                   connect_result, closing, original_timeout, response_parts,
                   elapsed, gap, response>>

\* if await self.connect(): self.writer.write(request);
\*     await self.writer.drain(); return await self._read_response()
\* raise RuntimeError(f"Connection lost during request: {e}") from e
\* The retried write runs inside the except clause: what it raises leaves
\* _process_request as it is.
Async_pr_retry(t) ==
    /\ pc[t] = "a_pr_retry"
    /\ variant = "async"
    /\ Scheduled(t)
    /\ IF ~connect_result[t]
       THEN /\ Finish(t, Raised("RuntimeError", ConnectionLost, e[t]))
            /\ Release(t)
            /\ log' = log
       ELSE IF writer = None
       THEN /\ Finish(t, Raised("AttributeError", "", ""))
            /\ Release(t)
            /\ log' = log
       ELSE \/ /\ sock[writer].state = "open"
               /\ Logged(t, Write(t, writer, TRUE, "", TRUE))
               /\ Call(t, "a_read", "a_pr_return")
               /\ UNCHANGED <<result, locks, held>>
            \/ /\ \E err \in TransportErrors :
                     /\ Logged(t, Write(t, writer, FALSE, err, FALSE))
                     /\ Finish(t, Raised("OSError", err, ""))
               /\ Release(t)
    /\ UNCHANGED <<config, connection, reader,
                   writer, connection_lock, sock, calls, op, request, e,
                   connect_result, closing, original_timeout, response_parts,
                   elapsed, gap, response>>

\* a variant of Async_pr_return that drops the lock of the connection when
\* the read returned nothing
Async_pr_return_DropsLock(t) ==
    /\ pc[t] = "a_pr_return"
    /\ variant = "async"
    /\ Scheduled(t)
    /\ Finish(t, Returned(response[t]))
    /\ Release(t)
    /\ connection_lock' = IF response[t] = <<>> THEN None ELSE connection_lock
    /\ UNCHANGED <<config, connection, reader,
                   writer, sock, calls, op, request, log, e,
                   connect_result, closing, original_timeout, response_parts,
                   elapsed, gap, response>>

\* _process_request returns what _read_response returned
Async_pr_return(t) ==
    /\ pc[t] = "a_pr_return"
    /\ variant = "async"
    /\ Scheduled(t)
    /\ Finish(t, Returned(response[t]))
    /\ Release(t)
    /\ UNCHANGED <<config, connection, reader,
                   writer, connection_lock, sock, calls, op, request, log, e,
                   connect_result, closing, original_timeout, response_parts,
                   elapsed, gap, response>>

\* ---------------------------------------- AsyncHDMIMatrix._read_response
\* if not self.reader: return ""
\* response_parts = []; start_time = ...; last_data_time = start_time
Async_read_begin(t) ==
    /\ pc[t] = "a_read"
    /\ variant = "async"
    /\ Scheduled(t)
    /\ IF reader = None
       THEN /\ response' = [response EXCEPT ![t] = <<>>]
            /\ Return(t)
            /\ UNCHANGED <<response_parts, elapsed, gap, log>>
       ELSE /\ response_parts' = [response_parts EXCEPT ![t] = <<>>]
            /\ elapsed' = [elapsed EXCEPT ![t] = 0]
            /\ gap' = [gap EXCEPT ![t] = 0]
            /\ Logged(t, Event("read", reader, TRUE, "", ""))
            /\ Goto(t, "a_read_loop")
            /\ UNCHANGED <<stack, response>>
    /\ UNCHANGED <<shared, calls, op, request, result, e, connect_result,
                   held, closing, original_timeout>>

\* read returned data: response_parts.append(data.decode(...));
\* last_data_time = loop.time()
Async_recv_data(t) ==
    /\ sock[reader].state = "open"
    /\ ~sock[reader].eof
    /\ MayArrive(t)
    /\ \E data \in Chunks, d \in 0 .. READ_ATTEMPT_TIMEOUT - 1 :
         /\ response_parts' =
              [response_parts EXCEPT ![t] = Append(@, Decode(data))]
         /\ elapsed' = [elapsed EXCEPT ![t] = @ + d]
         /\ gap' = [gap EXCEPT ![t] = 0]
         /\ Logged(t, Event("recv", reader, TRUE, data, ""))
    /\ sock' = sock
    /\ Goto(t, "a_read_loop")

\* read returned b"": connection closed, break
Async_recv_eof(t) ==
    /\ MayClose \/ sock[reader].eof
    /\ sock' = [sock EXCEPT ![reader].eof = TRUE]
    /\ Goto(t, "a_read_end")
    /\ UNCHANGED <<response_parts, elapsed, gap, log>>

\* asyncio.TimeoutError after 0.1 s: break on the inactivity test, else
\* await asyncio.sleep(SOCKET_RECEIVE_DELAY) and continue
Async_recv_timeout(t) ==
    /\ sock[reader].state = "open"
    /\ ~sock[reader].eof
    /\ MayBeSilent(t)
    /\ UNCHANGED <<response_parts, log, sock>>
    /\ IF /\ response_parts[t] # <<>>
          /\ gap[t] + READ_ATTEMPT_TIMEOUT > SOCKET_END_OF_DATA_TIMEOUT
       THEN Goto(t, "a_read_end") /\ Wait(t, READ_ATTEMPT_TIMEOUT)
       ELSE Goto(t, "a_read_loop")
            /\ Wait(t, READ_ATTEMPT_TIMEOUT + SOCKET_RECEIVE_DELAY)

\* any other exception: except Exception: break
Async_recv_error(t) ==
    /\ \E err \in TransportErrors :
          Logged(t, Event("read_error", reader, FALSE, "", err))
    /\ Goto(t, "a_read_end")
    /\ UNCHANGED <<response_parts, elapsed, gap, sock>>

\* one pass of the while loop: the test of the overall timeout, one
\* wait_for(self.reader.read(...), timeout=0.1) and what follows it
Async_read_attempt(t) ==
    /\ pc[t] = "a_read_loop"
    /\ variant = "async"
    /\ Scheduled(t)
    /\ IF elapsed[t] >= READ_TIMEOUT
       THEN \* the while condition is false
            /\ Goto(t, "a_read_end")
            /\ UNCHANGED <<response_parts, elapsed, gap, log, sock>>
       ELSE IF reader = None
       THEN \* except Exception: break
            /\ Goto(t, "a_read_end")
            /\ UNCHANGED <<response_parts, elapsed, gap, log, sock>>
       ELSE \/ Async_recv_data(t)
            \/ Async_recv_eof(t)
            \/ Async_recv_timeout(t)
            \/ Async_recv_error(t)
    /\ UNCHANGED <<config, connection, reader, writer,
                   connection_lock, locks, stack, calls, op, request, result,
                   e, connect_result, held, closing, original_timeout,
                   response>>

\* complete_response = ''.join(response_parts).strip()
Async_read_end(t) ==
    /\ pc[t] = "a_read_end"
    /\ variant = "async"
    /\ Scheduled(t)
    /\ response' = [response EXCEPT ![t] = CompleteResponse(response_parts[t])]
    /\ EndOfRead(t)
    /\ Return(t)
    /\ UNCHANGED <<shared, calls, op, request, result, log, e,
                   connect_result, held, closing>>

AsyncStep(t) ==
    \/ Async_connect_open(t) \/ Async_connect_greet(t)
    \/ Async_disconnect(t) \/ Async_disconnect_closed(t)
    \/ Async_pr_check(t) \/ Async_pr_connected(t) \/ Async_pr_lock(t)
    \/ Async_pr_send(t) \/ Async_pr_disconnected(t) \/ Async_pr_retry(t)
    \/ Async_pr_return(t)
    \/ Async_read_begin(t) \/ Async_read_attempt(t) \/ Async_read_end(t)

SyncStep(t) ==
    \/ Sync_connect_socket(t) \/ Sync_connect_wait(t) \/ Sync_connect_greet(t)
    \/ Sync_connect_fail(t) \/ Sync_connect_fail_close(t)
    \/ Sync_connect_fail_clear(t)
    \/ Sync_disconnect(t) \/ Sync_disconnect_close(t)
    \/ Sync_disconnect_clear(t)
    \/ Sync_pr_check(t) \/ Sync_pr_connected(t) \/ Sync_pr_send(t)
    \/ Sync_pr_disconnected(t) \/ Sync_pr_retry(t) \/ Sync_pr_return(t)
    \/ Sync_read_begin(t) \/ Sync_read_attempt(t) \/ Sync_read_end(t)

CallStep(t) ==
    \/ CallConnect(t) \/ CallDisconnect(t) \/ CallProcessRequest(t)
    \/ ReturnConnect(t) \/ ReturnDisconnect(t)

\* one caller of an instance of either class
Init == InitWith({1}, {"sync", "async"}, "any")
Next == \E t \in {1} : CallStep(t) \/ SyncStep(t) \/ AsyncStep(t)
Spec == Init /\ [][Next]_vars

\* one caller of an instance of either class that connects, disconnects,
\* uses the context manager and reads
ConnectStep(t) ==
    \/ Sync_connect_socket(t) \/ Sync_connect_wait(t) \/ Sync_connect_greet(t)
    \/ Sync_connect_fail(t) \/ Sync_connect_fail_close(t)
    \/ Sync_connect_fail_clear(t)
    \/ Sync_disconnect(t) \/ Sync_disconnect_close(t)
    \/ Sync_disconnect_clear(t)
    \/ Async_connect_open(t) \/ Async_connect_greet(t)
    \/ Async_disconnect(t) \/ Async_disconnect_closed(t)

ReadStep(t) ==
    \/ Sync_read_begin(t) \/ Sync_read_attempt(t) \/ Sync_read_end(t)
    \/ Async_read_begin(t) \/ Async_read_attempt(t) \/ Async_read_end(t)

LifecycleStep(t) ==
    \/ CallConnect(t) \/ CallDisconnect(t) \/ CallWith(t)
    \/ CallReadResponse(t)
    \/ ReturnConnect(t) \/ ReturnDisconnect(t) \/ ReturnRead(t)
    \/ With_enter(t) \/ With_body(t) \/ With_exit(t)

InitLifecycle == InitWith({1}, {"sync", "async"}, "prompt")
NextLifecycle ==
    \E t \in {1} : LifecycleStep(t) \/ ConnectStep(t) \/ ReadStep(t)
SpecLifecycle == InitLifecycle /\ [][NextLifecycle]_vars

\* the instance after a connect() that returned True
Connected ==
    /\ sock = << [state |-> "open",
                  timeout |-> IF variant = "sync" THEN SOCKET_TIMEOUT ELSE 0,
                  eof |-> FALSE] >>
    /\ connection = IF variant = "sync" THEN 1 ELSE None
    /\ reader = IF variant = "async" THEN 1 ELSE None
    /\ writer = IF variant = "async" THEN 1 ELSE None
    /\ locks = IF variant = "async" THEN << None >> ELSE << >>
    /\ connection_lock = IF variant = "async" THEN 1 ELSE None

\* the callers C of one instance of variant V that is newly constructed or
\* connected
InitShared(C, V) ==
    /\ variant \in V
    /\ device = "prompt"
    /\ auto_reconnect \in BOOLEAN
    /\ input_count = 4
    /\ output_count = 4
    /\ \/ Connected
       \/ /\ connection = None /\ reader = None /\ writer = None
          /\ connection_lock = None /\ sock = <<>> /\ locks = <<>>
    /\ CallersInit(C)

\* NumCallers tasks call _process_request of one AsyncHDMIMatrix
InitAsync == InitShared(1 .. NumCallers, {"async"})
NextAsync == \E t \in 1 .. NumCallers : CallProcessRequest(t) \/ AsyncStep(t)
SpecAsync == InitAsync /\ [][NextAsync]_vars

\* NumCallers threads call _process_request of one HDMIMatrix
InitSync == InitShared(1 .. NumCallers, {"sync"})
NextSync == \E t \in 1 .. NumCallers : CallProcessRequest(t) \/ SyncStep(t)
SpecSync == InitSync /\ [][NextSync]_vars

\* ------------------------------------------------------------ properties
\* the labels of a _process_request that has written its payload
TransactionLabels == { "pr_return", "pr_disconnected", "pr_retry",
                       "a_pr_return", "a_pr_disconnected", "a_pr_retry" }

\* the caller has written (or tried to write) its payload and its
\* _process_request has not ended: it reads, disconnects, reconnects or retries
InTransaction(t) ==
    \/ pc[t] \in TransactionLabels
    \/ \E i \in DOMAIN stack[t] : stack[t][i] \in TransactionLabels

\* C1: in AsyncHDMIMatrix the transactions of concurrent _process_request
\* calls are serialized: no task writes between another task's write and the
\* end of that task's read, also while that task disconnects, reconnects and
\* retries.
C1_TransactionsSerialized ==
    variant = "async" =>
        \A t, u \in Callers : t # u => ~(InTransaction(t) /\ InTransaction(u))

\* C2: in HDMIMatrix a connection carries at most one transaction in flight:
\* the second thread's write comes after the first thread's read (or retry)
\* is over.
C2_OneTransactionInFlight ==
    variant = "sync" =>
        \A t, u \in Callers : t # u => ~(InTransaction(t) /\ InTransaction(u))

\* ------------------------------------- one call of _process_request
\* the caller's _process_request has returned or raised
Done(t) ==
    /\ pc[t] = "idle"
    /\ op[t].name = "_process_request"
    /\ result[t].kind # "none"

\* the positions of the events of one kind in the log of the caller's call
Events(t, kind) == { i \in DOMAIN log[t] : log[t][i].ev = kind }

\* the events of one kind that follow position i
After(t, kind, i) == { j \in Events(t, kind) : j > i }

\* the position of the first send of the call (0: nothing was sent)
FirstWrite(t) ==
    IF Events(t, "write") = {} THEN 0
    ELSE CHOOSE i \in Events(t, "write") : \A j \in Events(t, "write") : i <= j

\* the first send of the call raised a transport error
FirstWriteFailed(t) == FirstWrite(t) > 0 /\ ~log[t][FirstWrite(t)].ok

\* a connect() that followed the first send returned True
Reconnected(t) ==
    \E j \in After(t, "connect_ret", FirstWrite(t)) : log[t][j].ok

\* the operations of the call that failed: a send or a read attempt that
\* raised, a connect() that returned False
Failures(t) ==
    { i \in DOMAIN log[t] :
        log[t][i].ev \in { "write", "read_error", "connect_ret" } /\ ~log[t][i].ok }

\* C3: one call of _process_request, of either class and under any pattern of
\* transport failures, sends the payload at most twice and calls connect() at
\* most twice, at most once after a failure: there is no retry loop.
C3_AtMostOneRetry ==
    \A t \in Callers :
        op[t].name = "_process_request" =>
            /\ Count(t, "write") <= 2
            /\ Count(t, "connect") <= 2
            /\ \A i \in Failures(t) : Cardinality(After(t, "connect", i)) <= 1
            /\ \A i \in Failures(t) : Cardinality(After(t, "write", i)) <= 1

\* a call that sent twice and connected twice has ended
C3_Witness ==
    \E t \in Callers :
        Done(t) /\ Count(t, "write") = 2 /\ Count(t, "connect") = 2

\* C4: when the first send fails, the reconnect succeeds and the retried send
\* fails too, the call raises the one RuntimeError 'Connection lost during
\* request' whose cause is the transport error.
C4_SecondFailureIsConnectionLost ==
    \A t \in Callers :
        ( /\ Done(t)
          /\ FirstWriteFailed(t)
          /\ Reconnected(t)
          /\ \E j \in After(t, "write", FirstWrite(t)) : ~log[t][j].ok )
        => /\ result[t].kind = "raise"
           /\ result[t].exc = "RuntimeError"
           /\ result[t].msg = ConnectionLost
           /\ result[t].cause \in TransportErrors

\* C5: a _process_request that starts with is_connected False and
\* auto_reconnect True calls connect() once before it sends; when that
\* connect() returns False it raises 'Not connected and auto-reconnect
\* failed.' and sends nothing.
C5_ConnectsOnceBeforeWrite ==
    \A t \in Callers :
        (op[t].name = "_process_request" /\ ~op[t].connected /\ auto_reconnect)
        => /\ log[t] # <<>> => log[t][1].ev = "connect"
           /\ FirstWrite(t) > 0 =>
                /\ Cardinality({ j \in Events(t, "connect") : j < FirstWrite(t) }) = 1
                /\ \E j \in Events(t, "connect_ret") :
                      j < FirstWrite(t) /\ log[t][j].ok
           /\ Done(t) => Events(t, "connect") # {}
           /\ ( /\ Done(t)
                /\ \E j \in Events(t, "connect_ret") :
                      /\ ~log[t][j].ok
                      /\ \A k \in Events(t, "connect_ret") : j <= k )
              => /\ result[t] = Raised("RuntimeError", ReconnectFailed, "")
                 /\ Events(t, "write") = {}
                 /\ Count(t, "connect") = 1

\* the initial auto-reconnect failed and the call has raised
C5_Witness ==
    \E t \in Callers :
        /\ Done(t) /\ ~op[t].connected /\ auto_reconnect
        /\ Count(t, "connect") = 1
        /\ result[t] = Raised("RuntimeError", ReconnectFailed, "")

\* C6: a _process_request that finds is_connected False with auto_reconnect
\* False raises 'Not connected. Call connect() first.' in its first step:
\* no connect(), no send, no read, and the instance is as it was.
C6_NotConnectedFailsImmediately ==
    [][ \A t \in Callers :
          ( /\ pc[t] \in { "pr", "a_pr" }
            /\ ~is_connected
            /\ ~auto_reconnect
            /\ pc'[t] # pc[t] )
          => /\ pc'[t] = "idle"
             /\ result'[t] = Raised("RuntimeError", NotConnected, "")
             /\ log'[t] = <<>>
             /\ shared' = shared ]_vars

\* the call on an instance that is not connected has raised
C6_Witness ==
    \E t \in Callers :
        /\ Done(t) /\ ~op[t].connected /\ ~auto_reconnect
        /\ result[t] = Raised("RuntimeError", NotConnected, "")

C9_ReadErrorRecovers ==
    \A t \in Callers :
        (Done(t) /\ Events(t, "read_error") # {})
        => LET i == CHOOSE i \in Events(t, "read_error") :
                       \A j \in Events(t, "read_error") : i <= j
           IN  /\ After(t, "close", i) # {}
               /\ IF auto_reconnect
                  THEN After(t, "connect", i) # {}
                  ELSE /\ result[t].kind = "raise"
                       /\ result[t].msg = ConnectionLost

\* the labels of _read_response
ReadLabels == { "read", "read_loop", "read_end",
                "a_read", "a_read_loop", "a_read_end" }

\* the step logs a read attempt that raised a transport error
ReadErrorStep(t) ==
    /\ Len(log'[t]) = Len(log[t]) + 1
    /\ log'[t][Len(log'[t])].ev = "read_error"

\* C10: _read_response leaves only by returning to its caller, never by an
\* exception; a read attempt that raises a transport error ends the loop
\* with what was read so far, and the value returned is that data, joined
\* and stripped (the empty string when there is none).
C10_ReadNeverRaises ==
    [][ \A t \in Callers :
          /\ (pc[t] \in ReadLabels /\ pc'[t] \notin ReadLabels)
             => /\ pc'[t] = Head(stack[t])
                /\ stack'[t] = Tail(stack[t])
                /\ result'[t] = result[t]
          /\ ReadErrorStep(t)
             => /\ pc'[t] \in { "read_end", "a_read_end" }
                /\ response_parts'[t] = response_parts[t]
          /\ (pc[t] \in { "read_end", "a_read_end" } /\ pc'[t] # pc[t])
             => response'[t] = CompleteResponse(response_parts[t]) ]_vars

\* a read attempt raised after data had arrived and the call returned the data
C10_Witness ==
    \E t \in Callers :
        /\ Done(t) /\ Events(t, "read_error") # {}
        /\ result[t].kind = "return" /\ result[t].value # <<>>

\* ------------------------------------- connect, disconnect, with
\* the caller's call of method m has returned or raised
Ended(t, m) ==
    /\ pc[t] = "idle"
    /\ op[t].name = m
    /\ result[t].kind # "none"

\* the instance stores a transport handle
Stored ==
    IF variant = "sync" THEN connection # None
    ELSE writer # None \/ reader # None

\* the instance stores a handle whose transport is neither closing nor closed
HandleOpen ==
    IF variant = "sync"
    THEN connection # None /\ sock[connection].state \notin { "closing", "closed" }
    ELSE writer # None /\ sock[writer].state \notin { "closing", "closed" }

\* C11: a connect() that fails (at opening the transport or after it, as in
\* the greeting read) returns False and does not raise; the transport it
\* opened is closed, no handle is stored and is_connected is False.
C11_FailedConnectLeavesNothing ==
    \A t \in Callers :
        Ended(t, "connect") =>
            /\ result[t].kind = "return"
            /\ result[t] = Returned(Bool(FALSE)) =>
                 /\ ~is_connected
                 /\ ~Stored
                 /\ \A i \in Events(t, "connect") :
                       log[t][i].h # None => sock[log[t][i].h].state = "closed"

\* C12: a connect() whose transport is established and whose greeting read
\* times out (the device sends no greeting) returns True and keeps the
\* handle stored.
C12_NoGreetingIsNoError ==
    \A t \in Callers :
        ( /\ Ended(t, "connect")
          /\ \E i \in Events(t, "greet") : log[t][i].data = "timeout" )
        => /\ result[t] = Returned(Bool(TRUE))
           /\ Stored
           /\ is_connected

\* C13: whenever a caller evaluates is_connected, it is True exactly when a
\* handle is stored and its transport is neither closing nor closed.
C13_IsConnectedIffOpenHandle ==
    \A t \in Callers :
        pc[t] \in { "pr", "a_pr" } => (is_connected <=> HandleOpen)

FirstConnectFailed(t) ==
    \E j \in Events(t, "connect_ret") :
        /\ ~log[t][j].ok
        /\ \A k \in Events(t, "connect_ret") : j <= k

ReadLoop == { "read_loop", "a_read_loop" }
ReadEnd == { "read_end", "a_read_end" }

\* the handle _read_response reads from
ReadHandle == IF variant = "sync" THEN connection ELSE reader

\* the step is a read attempt that timed out: nothing was read and the
\* per-attempt timeout went by
TimeoutStep(t) ==
    /\ pc[t] \in ReadLoop
    /\ response_parts'[t] = response_parts[t]
    /\ elapsed'[t] >= elapsed[t] + READ_ATTEMPT_TIMEOUT

\* C16: with data received, the reader stops at the first read-attempt
\* timeout at which more than SOCKET_END_OF_DATA_TIMEOUT has passed since the
\* last chunk (so it never waits in the loop longer than that plus one
\* sleep), and a timeout with the gap within the threshold, or with no data,
\* does not stop it.
C16_StopsOnInactivity ==
    /\ [](\A t \in Callers :
            (pc[t] \in ReadLoop /\ response_parts[t] # <<>>)
            => gap[t] <= SOCKET_END_OF_DATA_TIMEOUT + SOCKET_RECEIVE_DELAY)
    /\ [][ \A t \in Callers :
             TimeoutStep(t) =>
                /\ pc'[t] \in ReadEnd =>
                     /\ response_parts[t] # <<>>
                     /\ gap'[t] > SOCKET_END_OF_DATA_TIMEOUT
                /\ pc'[t] \in ReadLoop =>
                     \/ response_parts[t] = <<>>
                     \/ gap'[t] - SOCKET_RECEIVE_DELAY
                           <= SOCKET_END_OF_DATA_TIMEOUT ]_vars

\* the reader has stopped on inactivity, before the overall timeout
C16_Witness ==
    \E t \in Callers :
        /\ pc[t] \in ReadEnd
        /\ response_parts[t] # <<>>
        /\ gap[t] > SOCKET_END_OF_DATA_TIMEOUT
        /\ elapsed[t] < READ_TIMEOUT

\* C17: a read attempt that returns b"" (the peer closed the stream) ends
\* the loop at once: no sleep, no further attempt, the data kept.
C17_EofEndsRead ==
    [][ \A t \in Callers :
          ( /\ pc[t] \in ReadLoop
            /\ ReadHandle # None
            /\ sock'[ReadHandle].eof )
          => /\ pc'[t] \in ReadEnd
             /\ elapsed'[t] = elapsed[t]
             /\ response_parts'[t] = response_parts[t] ]_vars

\* C18: a read that ends without a chunk returns "" and _process_request
\* returns what the read returned: no exception, no disconnect, no retry.
C18_NoDataIsEmptyString ==
    [][ \A t \in Callers :
          /\ (pc[t] \in ReadEnd /\ response_parts[t] = <<>> /\ pc'[t] # pc[t])
             => /\ response'[t] = <<>>
                /\ pc'[t] = Head(stack[t])
                /\ log'[t] = log[t]
                /\ <<connection, reader, writer>>' = <<connection, reader, writer>>
          /\ (pc[t] \in { "pr_return", "a_pr_return" } /\ pc'[t] # pc[t])
             => /\ pc'[t] = "idle"
                /\ result'[t] = Returned(response[t])
                /\ log'[t] = log[t]
                /\ <<connection, reader, writer, sock>>'
                      = <<connection, reader, writer, sock>> ]_vars

\* the overall timeout has elapsed in a _process_request with no chunk read
C18_Witness ==
    \E t \in Callers :
        /\ op[t].name = "_process_request"
        /\ pc[t] \in ReadEnd
        /\ response_parts[t] = <<>>
        /\ elapsed[t] >= READ_TIMEOUT

\* C19: once READ_TIMEOUT has elapsed since the read began the loop starts
\* no read attempt and ends with what was read; the time since the start
\* only grows in the loop (nothing moves the deadline), so the loop is never
\* entered later than one attempt and one sleep after the deadline.
C19_OverallTimeout ==
    /\ [](\A t \in Callers :
            pc[t] \in ReadLoop
            => elapsed[t] < READ_TIMEOUT + READ_ATTEMPT_TIMEOUT
                              + SOCKET_RECEIVE_DELAY)
    /\ [][ \A t \in Callers :
             pc[t] \in ReadLoop =>
                /\ elapsed[t] >= READ_TIMEOUT =>
                     /\ pc'[t] \in ReadEnd
                     /\ response_parts'[t] = response_parts[t]
                     /\ elapsed'[t] = elapsed[t]
                /\ pc'[t] \in ReadLoop \cup ReadEnd =>
                     elapsed'[t] >= elapsed[t] ]_vars

\* the deadline ended a read whose last chunk was within the inactivity
\* threshold
C19_Witness ==
    \E t \in Callers :
        /\ pc[t] \in ReadEnd
        /\ response_parts[t] # <<>>
        /\ gap[t] <= SOCKET_END_OF_DATA_TIMEOUT
        /\ elapsed[t] >= READ_TIMEOUT

\* C20: _read_response called with no connection (HDMIMatrix: no
\* connection, AsyncHDMIMatrix: no reader) returns "" in its first step: no
\* transport operation, no wait, the instance as it was.
C20_ReadWithoutConnection ==
    [][ \A t \in Callers :
          ( /\ pc[t] \in { "read", "a_read" }
            /\ ReadHandle = None
            /\ pc'[t] # pc[t] )
          => /\ pc'[t] = Head(stack[t])
             /\ response'[t] = <<>>
             /\ log'[t] = log[t]
             /\ elapsed'[t] = elapsed[t]
             /\ shared' = shared ]_vars

\* a _read_response on an instance that is not connected has returned ""
C20_Witness ==
    \E t \in Callers :
        /\ Ended(t, "_read_response") /\ ~op[t].connected
        /\ result[t] = Returned(<<>>)
        /\ log[t] = <<>>

\* ------------------------------------------- the two classes compared
\* what AsyncHDMIMatrix.connect returns once the transport is established,
\* by how the greeting read ended: asyncio.TimeoutError is passed over,
\* any other exception makes it return False
Async_connect_returns(g) == g \in { "data", "eof", "timeout" }

\* C21: for one caller and the same transport events HDMIMatrix and
\* AsyncHDMIMatrix behave alike: a connect() whose transport is established
\* returns, for every way the greeting read ends, what
\* AsyncHDMIMatrix.connect returns for it, whichever class the instance is of.
C21_SameResultInBothClasses ==
    \A t \in Callers :
        Ended(t, "connect") =>
            \A i \in Events(t, "greet") :
                result[t] = Returned(Bool(Async_connect_returns(log[t][i].data)))

\* ------------------------------------------------- what a call may raise
\* C22: a connect(), disconnect() or _process_request that fails raises
\* RuntimeError 'Not connected...' or 'Connection lost during request' and
\* nothing else: no transport exception and no other exception type leaves
\* the call, and connect() never raises.
C22_OnlyDeclaredFailures ==
    \A t \in Callers :
        ( /\ pc[t] = "idle"
          /\ op[t].name \in { "connect", "disconnect", "_process_request" }
          /\ result[t].kind = "raise" )
        => /\ op[t].name # "connect"
           /\ result[t].exc = "RuntimeError"
           /\ result[t].msg \in { NotConnected, ReconnectFailed, ConnectionLost }

\* ------------------------------------------------------------ termination
\* the steps of a task that end after a bounded time: every await of
\* AsyncHDMIMatrix under asyncio.wait_for (the greeting read, a read
\* attempt), the wait for a lock whose holder ends, wait_closed() of a
\* transport that was closed, and the code between awaits.  The await of
\* asyncio.open_connection is not among them: it has no timeout.
Async_bounded(t) ==
    \/ Async_connect_greet(t)
    \/ Async_disconnect(t) \/ Async_disconnect_closed(t)
    \/ Async_pr_check(t) \/ Async_pr_connected(t) \/ Async_pr_lock(t)
    \/ Async_pr_send(t) \/ Async_pr_disconnected(t) \/ Async_pr_retry(t)
    \/ Async_pr_return(t)
    \/ Async_read_begin(t) \/ Async_read_attempt(t) \/ Async_read_end(t)

\* the steps of a caller that end after a bounded time: every socket
\* operation of HDMIMatrix runs under the socket's timeout (settimeout
\* before connect, recv and send)
Bounded(t) ==
    \/ SyncStep(t)
    \/ Async_bounded(t)
    \/ ReturnConnect(t) \/ ReturnDisconnect(t)

\* one caller of an instance of either class, whose steps that end after a
\* bounded time are taken
SpecLive == Init /\ [][Next]_vars /\ \A t \in {1} : WF_vars(Bounded(t))

\* C23: no call blocks without bound: a connect(), disconnect() or
\* _process_request that was started ends, whatever the peer does (it never
\* accepts, never greets, never answers).
C23_EveryCallEnds ==
    \A t \in {1} : (pc[t] # "idle") ~> (pc[t] = "idle")

\* ------------------------------------------------------------ the commands
\* the port numbers a caller passes are 0 .. MaxPort
MaxPort == 5
\* top-level calls of the caller of a command method
MaxCommandCalls == 1

\* the Commands enumeration; a template of str.format is the sequence of
\* its literal parts and replacement fields
Commands ==
    [ POWERON |-> "PowerON.", POWEROFF |-> "PowerOFF.",
      NAME |-> "/*Name.", TYPE |-> "/*Type.", VERSION |-> "/^Version.",
      STATUS |-> "STA.", STATUS_VIDEO |-> "STA_VIDEO.",
      STATUS_PHDBT |-> "STA_PHDBT.", STATUS_INPUT |-> "STA_IN.",
      STATUS_OUTPUT |-> "STA_OUT.", STATUS_HDCP |-> "STA_HDCP.",
      STATUS_DOWNSCALING |-> "STA_DS.",
      ROUTE_OUTPUT |-> << "OUT", "{:02d}", ":", "{:02d}", "." >>,
      OUTPUT_ON |-> << "@OUT", "{:02d}", "." >>,
      OUTPUT_OFF |-> << "$OUT", "{:02d}", "." >> ]

Digit(d) == << "0", "1", "2", "3", "4", "5", "6", "7", "8", "9" >>[d + 1]

\* str(n) of a natural number
RECURSIVE Decimal(_)
Decimal(n) == IF n < 10 THEN Digit(n)
              ELSE Decimal(n \div 10) \o Digit(n % 10)

\* format(n, "02d") of a natural number: padded with a zero to two digits
Format02d(n) == IF n < 10 THEN "0" \o Digit(n) ELSE Decimal(n)

\* template.format(*args): the replacement fields take the arguments in
\* their order
RECURSIVE Format(_, _)
Format(template, args) ==
    IF template = <<>> THEN ""
    ELSE IF Head(template) = "{:02d}"
    THEN Format02d(Head(args)) \o Format(Tail(template), Tail(args))
    ELSE Head(template) \o Format(Tail(template), args)

\* a variant of InRange without the lower limit
InRange_NoLowerLimit(k, count) == k <= count

\* 1 <= k <= count
InRange(k, count) == 1 <= k /\ k <= count

\* _validate_routing_params: the message of the ValueError it raises, ""
\* when it returns
validate_routing_params(input, output) ==
    IF ~InRange(input, input_count)
    THEN "Input must be between 1 and " \o Decimal(input_count)
    ELSE IF ~InRange(output, output_count)
    THEN "Output must be between 1 and " \o Decimal(output_count)
    ELSE ""

\* the test of _build_output_on_command and _build_output_off_command
validate_output(output) ==
    IF ~InRange(output, output_count)
    THEN "Output must be between 1 and " \o Decimal(output_count)
    ELSE ""

\* a variant of build_route_command that gives the input first
build_route_command_InputFirst(input, output) ==
    Format(Commands.ROUTE_OUTPUT, << input, output >>)

\* Commands.ROUTE_OUTPUT.value.format(output, input).encode("ascii")
build_route_command(input, output) ==
    Format(Commands.ROUTE_OUTPUT, << output, input >>)

\* a variant of SIMPLE_COMMANDS with the two power commands exchanged
SIMPLE_COMMANDS_PowerExchanged ==
    [ get_device_name |-> "NAME", get_device_status |-> "STATUS",
      get_device_type |-> "TYPE", get_device_version |-> "VERSION",
      get_video_status |-> "STATUS_VIDEO",
      get_hdbt_power_status |-> "STATUS_PHDBT",
      get_input_status |-> "STATUS_INPUT",
      get_output_status |-> "STATUS_OUTPUT",
      get_hdcp_status |-> "STATUS_HDCP",
      get_downscaling_status |-> "STATUS_DOWNSCALING",
      power_on |-> "POWEROFF", power_off |-> "POWERON" ]

\* BaseHDMIMatrix._SIMPLE_COMMANDS: method name -> Commands member
SIMPLE_COMMANDS ==
    [ get_device_name |-> "NAME", get_device_status |-> "STATUS",
      get_device_type |-> "TYPE", get_device_version |-> "VERSION",
      get_video_status |-> "STATUS_VIDEO",
      get_hdbt_power_status |-> "STATUS_PHDBT",
      get_input_status |-> "STATUS_INPUT",
      get_output_status |-> "STATUS_OUTPUT",
      get_hdcp_status |-> "STATUS_HDCP",
      get_downscaling_status |-> "STATUS_DOWNSCALING",
      power_on |-> "POWERON", power_off |-> "POWEROFF" ]

\* a method that evaluates its argument of _process_request and calls it:
\* return self._process_request(<payload>).  When the evaluation raises
\* ValueError (error is its message) the method ends there.
Command(t, m, a, error, payload) ==
    /\ calls[t] < MaxCommandCalls
    /\ Called(t, m, a)
    /\ Fresh(t)
    /\ IF error # ""
       THEN /\ result' = [result EXCEPT ![t] = Raised("ValueError", error, "")]
            /\ UNCHANGED <<pc, stack, request>>
       ELSE /\ result' = [result EXCEPT ![t] = NoResult]
            /\ request' = [request EXCEPT ![t] = payload]
            /\ Call(t, IF variant = "sync" THEN "pr" ELSE "a_pr", "ret_pr")
    /\ UNCHANGED shared

\* route_input_to_output(input, output)
CallRoute(t) ==
    \E input, output \in 0 .. MaxPort :
        Command(t, "route_input_to_output", << input, output >>,
                validate_routing_params(input, output),
                build_route_command(input, output))

\* output_on(output): the payload is
\* Commands.OUTPUT_ON.value.format(output).encode("ascii")
CallOutputOn(t) ==
    \E output \in 0 .. MaxPort :
        Command(t, "output_on", << output >>, validate_output(output),
                Format(Commands.OUTPUT_ON, << output >>))

\* output_off(output): the payload is
\* Commands.OUTPUT_OFF.value.format(output).encode("ascii")
CallOutputOff(t) ==
    \E output \in 0 .. MaxPort :
        Command(t, "output_off", << output >>, validate_output(output),
                Format(Commands.OUTPUT_OFF, << output >>))

\* a method that __init_subclass__ generated from _SIMPLE_COMMANDS:
\* def method(self, _cmd=cmd_bytes): return self._process_request(_cmd)
CallSimpleCommand(t) ==
    \E m \in DOMAIN SIMPLE_COMMANDS :
        Command(t, m, <<>>, "", Commands[SIMPLE_COMMANDS[m]])

\* a variant of Set_count that stores the value
Set_count_Stores(t, name) ==
    \E value \in 0 .. MaxPort :
        /\ calls[t] < MaxCommandCalls
        /\ Called(t, name, << value >>)
        /\ Fresh(t)
        /\ result' = [result EXCEPT ![t] = Returned(<<>>)]
        /\ input_count' = IF name = "input_count" THEN value ELSE input_count
        /\ output_count' = IF name = "output_count" THEN value ELSE output_count
        /\ UNCHANGED <<variant, device, auto_reconnect, connection, reader,
                       writer, connection_lock, sock, locks, pc, stack, request>>

\* matrix.input_count = value, matrix.output_count = value: the setter of
\* the property raises RuntimeError (its message names the value as well)
Set_count(t, name) ==
    \E value \in 0 .. MaxPort :
        /\ calls[t] < MaxCommandCalls
        /\ Called(t, name, << value >>)
        /\ Fresh(t)
        /\ result' = [result EXCEPT ![t] =
                         Raised("RuntimeError", name \o " is read-only", "")]
        /\ UNCHANGED <<shared, pc, stack, request>>

\* one caller of an instance of either class that calls the command
\* methods and assigns to the port counts
NextCommands ==
    \E t \in {1} :
        \/ CallRoute(t) \/ CallOutputOn(t) \/ CallOutputOff(t)
        \/ CallSimpleCommand(t)
        \/ Set_count(t, "input_count") \/ Set_count(t, "output_count")
        \/ SyncStep(t) \/ AsyncStep(t)
SpecCommands == InitShared({1}, {"sync", "async"}) /\ [][NextCommands]_vars

\* the call has an argument outside the ports of the matrix
OutOfRange(o) ==
    CASE o.name = "route_input_to_output" ->
            o.args[1] \notin 1 .. 4 \/ o.args[2] \notin 1 .. 4
      [] o.name \in { "output_on", "output_off" } -> o.args[1] \notin 1 .. 4
      [] OTHER -> FALSE

\* C24: route_input_to_output, output_on and output_off with an input or an
\* output outside 1..4 raise ValueError before _process_request is called:
\* the call ends in the step that starts it, with nothing written, no
\* connect attempted and the instance as it was, connected or not.
C24_RangeErrorBeforeRequest ==
    [][ \A t \in Callers :
          (calls'[t] # calls[t] /\ OutOfRange(op'[t]))
          => /\ pc'[t] = "idle"
             /\ result'[t].kind = "raise"
             /\ result'[t].exc = "ValueError"
             /\ log'[t] = <<>>
             /\ shared' = shared ]_vars

\* a route_input_to_output with an input out of range has raised ValueError
\* on an instance that is not connected and reconnects automatically
C24_Witness ==
    \E t \in Callers :
        /\ Ended(t, "route_input_to_output")
        /\ op[t].args[1] \notin 1 .. 4
        /\ result[t].exc = "ValueError"
        /\ ~op[t].connected /\ auto_reconnect
        /\ sock = <<>>

\* the two digits of a port number
TwoDigits == << "01", "02", "03", "04" >>

\* what is written is the payload, and a response is returned as it was read
PassedOn(t, payload) ==
    /\ request[t] = payload
    /\ \A i \in Events(t, "write") : log[t][i].data = payload
    /\ (pc[t] = "idle" /\ result[t].kind = "return")
       => result[t].value = response[t]

\* C25: with input and output in 1..4, route_input_to_output passes 'OUT',
\* the output in two digits, ':', the input in two digits and '.' to
\* _process_request; output_on(k) passes '@OUTkk.' and output_off(k)
\* '$OUTkk.'; what _process_request returns is returned unchanged.
C25_RoutePayload ==
    \A t \in Callers :
        ~OutOfRange(op[t]) =>
            /\ op[t].name = "route_input_to_output" =>
                 PassedOn(t, "OUT" \o TwoDigits[op[t].args[2]] \o ":"
                             \o TwoDigits[op[t].args[1]] \o ".")
            /\ op[t].name = "output_on" =>
                 PassedOn(t, "@OUT" \o TwoDigits[op[t].args[1]] \o ".")
            /\ op[t].name = "output_off" =>
                 PassedOn(t, "$OUT" \o TwoDigits[op[t].args[1]] \o ".")

\* route_input_to_output(3, 1) has written 'OUT01:03.' and returned the
\* response
C25_Witness ==
    \E t \in Callers :
        /\ Ended(t, "route_input_to_output")
        /\ op[t].args = << 3, 1 >>
        /\ \E i \in Events(t, "write") :
              log[t][i].ok /\ log[t][i].data = "OUT01:03."
        /\ result[t].kind = "return" /\ result[t].value # <<>>

\* the payload of each generated method
Payloads ==
    [ get_device_name |-> "/*Name.", get_device_status |-> "STA.",
      get_device_type |-> "/*Type.", get_device_version |-> "/^Version.",
      get_video_status |-> "STA_VIDEO.",
      get_hdbt_power_status |-> "STA_PHDBT.",
      get_input_status |-> "STA_IN.", get_output_status |-> "STA_OUT.",
      get_hdcp_status |-> "STA_HDCP.", get_downscaling_status |-> "STA_DS.",
      power_on |-> "PowerON.", power_off |-> "PowerOFF." ]

\* C26: each of the twelve generated methods (get_device_name,
\* get_device_status, get_device_type, get_device_version, get_video_status,
\* get_hdbt_power_status, get_input_status, get_output_status,
\* get_hdcp_status, get_downscaling_status, power_on, power_off) of both
\* classes calls _process_request with the fixed payload of its entry and
\* returns what it returns.
C26_GeneratedMethods ==
    \A t \in Callers :
        op[t].name \in DOMAIN Payloads => PassedOn(t, Payloads[op[t].name])

\* power_off of an AsyncHDMIMatrix has written 'PowerOFF.' and returned the
\* response
C26_Witness ==
    \E t \in Callers :
        /\ variant = "async"
        /\ Ended(t, "power_off")
        /\ \E i \in Events(t, "write") :
              log[t][i].ok /\ log[t][i].data = "PowerOFF."
        /\ result[t].kind = "return" /\ result[t].value # <<>>

\* C28: input_count and output_count are 4 after construction and stay 4
\* through every call; an assignment to either raises RuntimeError and
\* leaves the value as it was.
C28_PortCountsReadOnly ==
    /\ input_count = 4
    /\ output_count = 4
    /\ \A t \in Callers :
          (pc[t] = "idle" /\ op[t].name \in { "input_count", "output_count" })
          => result[t].kind = "raise" /\ result[t].exc = "RuntimeError"

\* an assignment of 5 to output_count has raised RuntimeError
C28_Witness ==
    \E t \in Callers :
        /\ op[t].name = "output_count" /\ op[t].args = << 5 >>
        /\ result[t].exc = "RuntimeError"
        /\ output_count = 4

\* ------------------------------------------------- the socket's timeout
\* C27: when HDMIMatrix._read_response has returned, the read timeout of the
\* socket is what it was when the read started (SOCKET_TIMEOUT, set by
\* connect()), whichever way the loop ended: inactivity, the overall timeout
\* or a read error.  Only inside the read is it the timeout of one attempt.
C27_TimeoutRestored ==
    \A t \in Callers :
        (variant = "sync" /\ connection # None) =>
            sock[connection].timeout =
                IF pc[t] \in { "read_loop", "read_end" }
                THEN READ_ATTEMPT_TIMEOUT ELSE SOCKET_TIMEOUT

\* a read of an HDMIMatrix that a read error ended has returned, and the
\* socket has its timeout of before the read
C27_Witness ==
    \E t \in Callers :
        /\ variant = "sync"
        /\ Done(t) /\ Events(t, "read_error") # {}
        /\ result[t].kind = "return"
        /\ connection # None
        /\ sock[connection].timeout = SOCKET_TIMEOUT

\* ------------------------------------------------- parse_video_status
\* lines of a status text
MaxLines == 2

\* the words of the pattern in ASCII: 'Output', 'Switch', 'To', 'In', '!'
Word == [ Output |-> << 79, 117, 116, 112, 117, 116 >>,
          Switch |-> << 83, 119, 105, 116, 99, 104 >>,
          To |-> << 84, 111 >>, In |-> << 73, 110 >>, Bang |-> << 33 >> ]
\* r'Output\s+(\d+)\s+Switch\s+To\s+In\s+(\d+)!': each element is a literal
\* or one or more characters of a class (\s, or \d: '0' .. '9')
Pattern ==
    LET lit(w) == [lit |-> w, cls |-> {}]
        some(c) == [lit |-> <<>>, cls |-> c]
        Digits == 48 .. 57
    IN << lit(Word.Output), some(Whitespace), some(Digits), some(Whitespace),
          lit(Word.Switch), some(Whitespace), lit(Word.To), some(Whitespace),
          lit(Word.In), some(Whitespace), some(Digits), lit(Word.Bang) >>

\* what a failed match gives
NoMatch == << <<>> >>

\* the end of the longest run of characters of cls that starts at s[i]
RECURSIVE RunEnd(_, _, _)
RunEnd(s, i, cls) ==
    IF i <= Len(s) /\ s[i] \in cls THEN RunEnd(s, i + 1, cls) ELSE i

\* the elements k.. of the pattern matched at line[i]: the groups (the runs
\* of digits), or NoMatch.  No class can start what follows it in the
\* pattern, so the longest run is the only one to try.
RECURSIVE Match(_, _, _)
Match(line, i, k) ==
    IF k > Len(Pattern) THEN <<>>
    ELSE LET p == Pattern[k]
             j == IF p.cls = {}
                  THEN IF /\ i + Len(p.lit) - 1 <= Len(line)
                          /\ SubSeq(line, i, i + Len(p.lit) - 1) = p.lit
                       THEN i + Len(p.lit) ELSE i
                  ELSE RunEnd(line, i, p.cls)
         IN IF j = i THEN NoMatch
            ELSE LET rest == Match(line, j, k + 1)
                 IN IF rest = NoMatch THEN NoMatch
                    ELSE IF p.cls \notin { {}, Whitespace }
                    THEN << SubSeq(line, i, j - 1) >> \o rest
                    ELSE rest

\* re.search(pattern, line): the match at the first position that has one
RECURSIVE Search(_, _)
Search(line, i) ==
    IF i > Len(line) THEN NoMatch
    ELSE IF Match(line, i, 1) # NoMatch THEN Match(line, i, 1)
    ELSE Search(line, i + 1)

\* int(digits)
RECURSIVE int(_)
int(digits) ==
    IF digits = <<>> THEN 0
    ELSE 10 * int(SubSeq(digits, 1, Len(digits) - 1))
         + (digits[Len(digits)] - 48)

\* s.split('\n')
RECURSIVE Split(_)
Split(s) ==
    LET i == RunEnd(s, 1, (0 .. 127) \ {10})
    IN IF i > Len(s) THEN << s >>
       ELSE << SubSeq(s, 1, i - 1) >> \o Split(SubSeq(s, i + 1, Len(s)))

\* a variant of Put that keeps the value a key has
Put_KeepsFirst(routing, key, value) ==
    IF \E p \in routing : p[1] = key THEN routing
    ELSE routing \cup { << key, value >> }

\* routing[key] = value, a dict as the set of its items
Put(routing, key, value) ==
    { p \in routing : p[1] # key } \cup { << key, value >> }

\* the for loop of parse_video_status over the lines
RECURSIVE Routing(_, _)
Routing(lines, routing) ==
    IF lines = <<>> THEN routing
    ELSE LET match == Search(Strip(Head(lines)), 1)
         IN Routing(Tail(lines),
                    IF match = NoMatch THEN routing
                    ELSE Put(routing, int(match[1]), int(match[2])))

parse_video_status(status_response) ==
    Routing(Split(Strip(status_response)), {})

\* a sentence of the status text: its output and input in digits, and the
\* white space between its words
Sentence(output, input, w) ==
    Word.Output \o w \o output \o w \o Word.Switch \o w \o Word.To \o w
    \o Word.In \o w \o input \o Word.Bang

\* what a line is made of: sentences (out is the output, in the input they
\* name) and other text (out is 0)
Items ==
    [ s12 |-> [out |-> 1, in |-> 2, text |-> Sentence(<<49>>, <<50>>, <<32>>)],
      s13 |-> [out |-> 1, in |-> 3, text |-> Sentence(<<49>>, <<51>>, <<32>>)],
      \* 'Output \t02 \tSwitch ...In \t01!'
      s21 |-> [out |-> 2, in |-> 1,
               text |-> Sentence(<<48, 50>>, <<48, 49>>, <<32, 9>>)],
      s10 |-> [out |-> 10, in |-> 12,
               text |-> Sentence(<<49, 48>>, <<49, 50>>, <<32>>)],
      \* 'x ', '  ', a sentence cut short, a sentence without its output
      x |-> [out |-> 0, in |-> 0, text |-> <<120, 32>>],
      blank |-> [out |-> 0, in |-> 0, text |-> <<32, 32>>],
      cut |-> [out |-> 0, in |-> 0,
               text |-> Word.Output \o <<32, 49, 32>> \o Word.Switch],
      none |-> [out |-> 0, in |-> 0,
                text |-> Word.Output \o <<32>> \o Word.Switch \o <<32>>
                         \o Word.To \o <<32>> \o Word.In \o <<32, 50, 33>>] ]

\* the lines of a status text, each the sequence of its items
Lines ==
    LET i == Items
    IN { <<>>, << i.s12 >>, << i.s13 >>, << i.s21 >>, << i.s10 >>, << i.x >>,
         << i.blank >>, << i.cut >>, << i.none >>,
         << i.x, i.s13 >>, << i.blank, i.s21, i.blank >>,
         << i.cut, i.s12 >>, << i.s12, i.s21 >>, << i.s13, i.x >> }

\* the text of a line, and of lines that end with the line terminator nl
RECURSIVE Render(_)
Render(items) ==
    IF items = <<>> THEN <<>> ELSE Head(items).text \o Render(Tail(items))
RECURSIVE Text(_, _)
Text(lines, nl) ==
    IF lines = <<>> THEN <<>>
    ELSE Render(Head(lines)) \o nl \o Text(Tail(lines), nl)

\* the status texts: up to MaxLines lines that end with '\n' or '\r\n'
StatusLines == UNION { [1 .. n -> Lines] : n \in 0 .. MaxLines }

\* parse_video_status(status_response) of a status text that a
\* get_video_status returned before
CallParse(t) ==
    /\ Called(t, "parse_video_status", op[t].args)
    /\ result' = [result EXCEPT ![t] =
                     Returned(parse_video_status(response[t]))]
    /\ UNCHANGED <<shared, pc, stack, request, log, locals>>

\* one caller that holds a status text and parses it
InitParse ==
    /\ Constructed({"sync", "async"}, "prompt")
    /\ \E lines \in StatusLines, nl \in { <<10>>, <<13, 10>> } :
          CallersHolding({1}, lines, Text(lines, nl))
SpecParse == InitParse /\ [][\E t \in {1} : CallParse(t)]_vars

\* the first sentence of a line: its output and input, or nothing
FirstSentence(line) ==
    LET k == { i \in DOMAIN line : line[i].out # 0 }
    IN IF k = {} THEN <<>>
       ELSE LET f == CHOOSE i \in k : \A j \in k : i <= j
            IN << line[f].out, line[f].in >>

C30_NoStaleWaiterOnNewConnection ==
    \A t \in Callers :
        (pc[t] = "a_pr_send" /\ writer # None)
        => held[t] = connection_lock

\* ------------------------------------------- the lock of a transaction
\* NumCallers tasks call _process_request of one AsyncHDMIMatrix, and the
\* event loop runs every task that can run; an await of the transport
\* (open_connection, read, wait_closed) ends, by itself or by the
\* operating system giving up
SpecAsyncLive ==
    InitAsync /\ [][NextAsync]_vars
    /\ \A t \in 1 .. NumCallers : WF_vars(AsyncStep(t))

\* the locks a task holds
Holds(t) == { l \in DOMAIN locks : locks[l] = t }

C32_StoredTogether ==
    variant = "async" =>
        /\ (connection_lock # None) <=> (writer # None)
        /\ (reader # None) <=> (writer # None)

\* a disconnect() of a connected AsyncHDMIMatrix has ended: the three are
\* cleared, and the lock of the connection exists no more for the instance
C32_Witness ==
    /\ variant = "async"
    /\ Ended(1, "disconnect")
    /\ op[1].connected
    /\ locks # <<>>
    /\ writer = None /\ reader = None /\ connection_lock = None

\* ------------------------------------------------- the payload is sent
\* C33: in each transaction the whole payload has been written to the
\* transport (fully sent or flushed) before the first read attempt of the
\* transaction begins, in both classes and on the retry path: a read of a
\* _process_request follows a write that returned and that the transport
\* took whole.
C33_WholePayloadBeforeRead ==
    \A t \in Callers :
        op[t].name = "_process_request" =>
            \A j \in Events(t, "read") :
                /\ j > 1
                /\ log[t][j - 1].ev = "write"
                /\ log[t][j - 1].ok
                /\ log[t][j - 1].all

\* ------------------------------------------------ what a read returns
\* the chunks the caller's call has received, in the order of their arrival
Received(t) ==
    LET R == SelectSeq(log[t], LAMBDA ev : ev.ev = "recv")
    IN  [i \in 1 .. Len(R) |-> R[i].data]

\* C34: the string _read_response returns is the concatenation, in the
\* order of their arrival, of all the chunks received during that read,
\* decoded as ASCII with the other bytes dropped, and without its leading
\* and trailing whitespace (the empty string when nothing else is left): no
\* chunk is lost, doubled, moved or kept for a later call.
C34_ResponseIsAllChunks ==
    \A t \in Callers :
        /\ Count(t, "read") <= 1
        /\ pc[t] \in { "pr_return", "a_pr_return" }
           => response[t] = Strip(Decode(Join(Received(t))))
        /\ (Done(t) /\ result[t].kind = "return")
           => result[t].value = Strip(Decode(Join(Received(t))))

\* the second call of a caller returned "a" from its two chunks, " a" and
\* then a byte outside ASCII with "\r"
C34_Witness ==
    \E t \in Callers :
        /\ Done(t) /\ calls[t] = 2
        /\ Received(t) = << <<32, 97>>, <<200, 13>> >>
        /\ result[t] = Returned(<<97>>)

\* ------------------------------------------------- one handle at a time
\* C35: an instance has at most one transport that is open and not yet
\* closed: every transport a connect() has opened is the one stored or has
\* been closed, also when connect() is called on a connected instance and
\* when _process_request reconnects.
C35_OneOpenHandle ==
    \A h \in DOMAIN sock :
        sock[h].state \notin { "closing", "closed" }
        => h = IF variant = "sync" THEN connection ELSE writer

\* --------------------------------- a disconnect suspended at wait_closed
\* C36: in AsyncHDMIMatrix a disconnect() that was suspended at
\* wait_closed() never clears the reader, writer and lock of a connection
\* that a connect() has established in the meantime: what it clears when it
\* resumes is the writer it closed.
C36_DisconnectClearsItsOwn ==
    [][\A t \in Callers :
          (pc[t] = "a_closing" /\ pc'[t] # "a_closing")
          => writer \in { None, closing[t] }]_vars

\* ------------------------------------------ after a connection failure
\* C37: whenever _process_request ends with a connection failure (not
\* connected, connection lost, or a failure of the retried write) no
\* transport handle is stored and is_connected is False afterwards, so that
\* the next call starts by reconnecting.
C37_FailureLeavesNoHandle ==
    \A t \in Callers :
        (Done(t) /\ result[t].kind = "raise")
        => ~Stored /\ ~is_connected

\* ------------------------------------------- a call that needs no retry
\* C38: a _process_request on a connected instance whose first write
\* succeeds calls neither connect() nor disconnect() and leaves the stored
\* handle (and the lock object of AsyncHDMIMatrix) as it was, whatever the
\* read returns: no step of the call changes what is stored, and at its end
\* the call has written once, to the handle that is stored and open.
C38_NoRetryNoChange ==
    /\ [][\A t \in Callers :
            ( /\ pc[t] # "idle"
              /\ op[t].name = "_process_request"
              /\ op[t].connected
              /\ ~FirstWriteFailed(t) )
            => UNCHANGED <<connection, reader, writer, connection_lock>>]_vars
    /\ [](\A t \in Callers :
            (Done(t) /\ op[t].connected /\ ~FirstWriteFailed(t))
            => /\ Count(t, "connect") = 0
               /\ Count(t, "close") = 0
               /\ Count(t, "write") = 1
               /\ result[t] = Returned(response[t])
               /\ HandleOpen
               /\ log[t][FirstWrite(t)].h =
                     IF variant = "sync" THEN connection ELSE writer)

\* a call on a connected instance wrote, met an error while reading, and
\* returned the empty string with its handle stored and open
C38_Witness ==
    \E t \in Callers :
        /\ Done(t) /\ op[t].connected /\ ~FirstWriteFailed(t)
        /\ Count(t, "read_error") = 1
        /\ result[t] = Returned(<<>>)
        /\ HandleOpen

\* --------------------------------------- the read timeout, with threads
\* C39: with several threads calling HDMIMatrix._process_request on one
\* instance, whenever no _read_response is in progress the read timeout of
\* the stored socket, when it is open, is SOCKET_TIMEOUT: the timeout of a
\* single read attempt does not stay in force once all reads have ended.
C39_TimeoutRestoredForAll ==
    ( /\ variant = "sync"
      /\ connection # None
      /\ sock[connection].state = "open"
      /\ \A t \in Callers : pc[t] \notin ReadLabels )
    => sock[connection].timeout = SOCKET_TIMEOUT

\* ------------------------------------------ using a handle that is gone
\* the caller is about to write its payload, or to make a read attempt
Writes(t) ==
    \/ pc[t] \in { "pr_send", "a_pr_send" }
    \/ pc[t] \in { "pr_retry", "a_pr_retry" } /\ connect_result[t]
Reads(t) == pc[t] \in ReadLoop /\ elapsed[t] < READ_TIMEOUT

\* C40: whenever _process_request writes or makes a read attempt a
\* transport handle is stored; a call does not use a handle that a
\* concurrent disconnect() or the failed reconnect of another call has
\* cleared: where it would, it fails with the NotConnected or the
\* ConnectionLost error.
C40_NoUseOfClearedHandle ==
    [][\A t \in Callers :
          ( \/ Writes(t) /\ (IF variant = "sync" THEN connection ELSE writer) = None
            \/ Reads(t) /\ ReadHandle = None )
          /\ pc'[t] # pc[t]
          => /\ result'[t].kind = "raise"
             /\ result'[t].exc = "RuntimeError"
             /\ result'[t].msg \in { NotConnected, ConnectionLost }]_vars

=============================================================================
